---------------------------- MODULE Spec2Model ----------------------------
(***************************************************************************)
(* A model of i18n-ai-diff: the snapshot-based diff classifier, the        *)
(* translation cache, the per-file translation pipeline of the Translator  *)
(* and the merge that writes the target language files.                    *)
(*                                                                         *)
(* Representation.  A JavaScript string is a tuple of one-character        *)
(* strings, so that concatenation, splitting on ".", prefix tests and       *)
(* lengths are computed as the code computes them.  A JavaScript object is *)
(* a tuple of entries [key, val] with pairwise distinct keys, in insertion *)
(* order (the order for-in and Object.keys follow).  A JSON node is a      *)
(* record with kind "str" (a string leaf), "obj" (a nested plain object)   *)
(* or "other" (a number, boolean, array or null).                          *)
(***************************************************************************)
EXTENDS Naturals, Sequences, FiniteSets, TLC

VARIABLES
    call,           \* arguments of the pure function under check (SpecDiff, SpecMerge)
    ret,            \* its return value, once applied
    snapshot,       \* diff-analyzer.ts: let snapshot (module-level)
    snapshotDirty,  \* diff-analyzer.ts: let snapshotDirty
    snapshotFile,   \* the persisted <cache>.snapshot.json
    cache,          \* CacheManager.cache.entries
    cacheDirty,     \* CacheManager.dirty
    cacheFile,      \* the persisted cache file
    baseFile,       \* locales/<baseLang>/<file> on disk
    targetFile,     \* locales/<targetLang>/<file> on disk
    skipKeys,       \* config.skipKeys
    force,          \* Translator.force
    proc,           \* position of the command line action (cli action)
    pl,             \* per (file, language): the locals of one translateFile call
    limitQueue,     \* p-limit: batches waiting for a slot, first in first out
    activeCount,    \* p-limit: batches in flight
    failures,       \* FailureLogger.failures
    sent,           \* history: source texts put into outbound requests this run
    hist            \* history: run counter, edits, outcome of the previous run

vars == <<call, ret, snapshot, snapshotDirty, snapshotFile, cache, cacheDirty,
          cacheFile, baseFile, targetFile, skipKeys, force, proc, pl,
          limitQueue, activeCount, failures, sent, hist>>

-----------------------------------------------------------------------------
(* JavaScript strings and objects *)

EmptyFn == [x \in {} |-> <<>>]

StartsWith(s, p) == Len(p) <= Len(s) /\ SubSeq(s, 1, Len(p)) = p

EndsWith(s, p) == Len(p) <= Len(s) /\ SubSeq(s, Len(s) - Len(p) + 1, Len(s)) = p

\* String.prototype.slice(n) for 0 <= n
SliceFrom(s, n) == IF n >= Len(s) THEN <<>> ELSE SubSeq(s, n + 1, Len(s))

\* first index (from 1) at which p occurs in s, 0 if none
IndexOf(s, p) ==
    LET hits == {i \in 1..(Len(s) + 1) : StartsWith(SliceFrom(s, i - 1), p)}
    IN  IF hits = {} THEN 0 ELSE CHOOSE i \in hits : \A j \in hits : i <= j

Includes(s, p) == IndexOf(s, p) # 0

\* String.prototype.split(sep) for a non-empty separator
RECURSIVE Split(_, _)
Split(s, sep) ==
    LET i == IndexOf(s, sep)
    IN  IF i = 0 THEN <<s>>
        ELSE <<SubSeq(s, 1, i - 1)>> \o Split(SliceFrom(s, i - 1 + Len(sep)), sep)

\* Array.prototype.join(sep)
RECURSIVE Join(_, _)
Join(parts, sep) ==
    IF parts = <<>> THEN <<>>
    ELSE IF Len(parts) = 1 THEN parts[1]
    ELSE parts[1] \o sep \o Join(Tail(parts), sep)

Dot == <<".">>

Has(o, k) == \E i \in 1..Len(o) : o[i].key = k

Get(o, k) == o[CHOOSE i \in 1..Len(o) : o[i].key = k].val

\* o[k] = v: an existing property keeps its place, a new one goes last
Put(o, k, v) ==
    IF Has(o, k)
    THEN [i \in 1..Len(o) |-> IF o[i].key = k THEN [key |-> k, val |-> v] ELSE o[i]]
    ELSE Append(o, [key |-> k, val |-> v])

Keys(o) == [i \in 1..Len(o) |-> o[i].key]

KeySet(o) == {o[i].key : i \in 1..Len(o)}

Range(s) == {s[i] : i \in 1..Len(s)}

SeqIncludes(s, x) == \E i \in 1..Len(s) : s[i] = x

StrLeaf(t) == [kind |-> "str", text |-> t, kids |-> <<>>]

ObjNode(o) == [kind |-> "obj", text |-> <<>>, kids |-> o]

OtherLeaf == [kind |-> "other", text |-> <<>>, kids |-> <<>>]

-----------------------------------------------------------------------------
(* json-utils.ts *)

RECURSIVE flattenInto(_, _, _)
flattenInto(obj, prefix, result) ==
    IF obj = <<>> THEN result
    ELSE LET key    == obj[1].key
             value  == obj[1].val
             newKey == IF prefix # <<>> THEN prefix \o Dot \o key ELSE key
             next   == IF value.kind = "obj" THEN flattenInto(value.kids, newKey, result)
                       ELSE IF value.kind = "str" THEN Put(result, newKey, value.text)
                       ELSE result
         IN  flattenInto(Tail(obj), prefix, next)

flatten(obj) == flattenInto(obj, <<>>, <<>>)

\* the inner loop of unflatten: walk or create the objects along parts, set the leaf
RECURSIVE setPath(_, _, _)
setPath(current, parts, value) ==
    LET part == parts[1]
    IN  IF Len(parts) = 1 THEN Put(current, part, StrLeaf(value))
        ELSE LET old  == IF Has(current, part) THEN Get(current, part) ELSE OtherLeaf
                 \* !current[part] || typeof current[part] !== 'object'
                 kids == IF old.kind = "obj" THEN old.kids ELSE <<>>
             IN  Put(current, part, ObjNode(setPath(kids, Tail(parts), value)))

\* an unflatten that sets every key as it is, without splitting it
unflattenWhole(flattened) ==
    [i \in 1..Len(flattened) |-> [key |-> flattened[i].key,
                                  val |-> StrLeaf(flattened[i].val)]]

RECURSIVE unflattenInto(_, _)
unflattenInto(flattened, result) ==
    IF flattened = <<>> THEN result
    ELSE unflattenInto(Tail(flattened),
                       setPath(result, Split(flattened[1].key, Dot), flattened[1].val))

unflatten(flattened) == unflattenInto(flattened, <<>>)

-----------------------------------------------------------------------------
(* path-matcher.ts *)

\* minimatch(s, p, {dot: true}) for patterns of literal characters and "*";
\* the keys hold no "/", so a "*" matches any run of characters
RECURSIVE minimatch(_, _)
minimatch(s, p) ==
    IF p = <<>> THEN s = <<>>
    ELSE IF p[1] = "*"
         THEN minimatch(s, Tail(p)) \/ (s # <<>> /\ minimatch(Tail(s), p))
         ELSE s # <<>> /\ s[1] = p[1] /\ minimatch(Tail(s), Tail(p))

\* some dotted suffix parts.slice(i).join('.') of the key matches the pattern
SomeSuffixMatches(parts, suffix) ==
    \E i \in 1..Len(parts) : minimatch(Join(SubSeq(parts, i, Len(parts)), Dot), suffix)

PrefixGlobMatches(key, pattern) == StartsWith(key, SubSeq(pattern, 1, Len(pattern) - 3))

matchKeyPattern(key, pattern) ==
    IF StartsWith(pattern, <<"*", "*", ".">>)
    THEN SomeSuffixMatches(Split(key, Dot), SliceFrom(pattern, 3))
    ELSE IF EndsWith(pattern, <<".", "*", "*">>)
    THEN PrefixGlobMatches(key, pattern)
    ELSE IF Includes(pattern, <<".", "*", "*", ".">>)
    THEN LET ps     == Split(pattern, <<".", "*", "*", ".">>)
             prefix == ps[1]
             suffix == ps[2]
         IN  /\ StartsWith(key, prefix)
             /\ SomeSuffixMatches(Split(SliceFrom(key, Len(prefix) + 1), Dot), suffix)
    ELSE minimatch(key, pattern)

isKeySkipped(key, patterns) ==
    \E i \in 1..Len(patterns) : matchKeyPattern(key, patterns[i])

-----------------------------------------------------------------------------
(* diff-analyzer.ts *)

\* md5 that gives every text the same digest
md5Constant(text) == <<"#">>

\* crypto md5 of a text: a digest that differs from the text and, on the texts
\* of the model, from the digest of every other text
md5(text) == <<"#">> \o text

\* `${targetLang}:${filePath}`
SnapshotKey(filePath, targetLang) == targetLang \o <<":">> \o filePath

FnPut(f, k, v) == [x \in (DOMAIN f) \cup {k} |-> IF x = k THEN v ELSE f[x]]

FnDrop(f, ks) == [x \in (DOMAIN f) \ ks |-> f[x]]

updateSnapshot(snap, filePath, targetLang, key, sourceText) ==
    LET k     == SnapshotKey(filePath, targetLang)
        entry == IF k \in DOMAIN snap THEN snap[k] ELSE EmptyFn
    IN  FnPut(snap, k, FnPut(entry, key, md5(sourceText)))

\* getSnapshotHash(...) is defined (and truthy)
HasSnapshotHash(snap, filePath, targetLang, key) ==
    LET k == SnapshotKey(filePath, targetLang)
    IN  k \in DOMAIN snap /\ key \in DOMAIN snap[k]

getSnapshotHash(snap, filePath, targetLang, key) ==
    snap[SnapshotKey(filePath, targetLang)][key]

removeSnapshotKeys(snap, filePath, targetLang, keys) ==
    LET k == SnapshotKey(filePath, targetLang)
    IN  IF k \notin DOMAIN snap THEN snap
        ELSE FnPut(snap, k, FnDrop(snap[k], Range(keys)))

\* whether removeSnapshotKeys sets snapshotDirty
removeSnapshotKeysDirties(snap, filePath, targetLang) ==
    SnapshotKey(filePath, targetLang) \in DOMAIN snap

\* a file's content as the code holds it: null, or the parsed tree
NoContent == [ok |-> FALSE, tree |-> <<>>]

Content(t) == [ok |-> TRUE, tree |-> t]

\* isModifiedKey with the snapshot left out of the decision
isModifiedKeyNoSnapshot(snap, base, target, filePath, targetLang, key) ==
    Get(target, key) = Get(base, key)

\* the test of the loop over baseKeys that sends a key to modified
\* (a key that is in the target and not sent to modified is unchanged)
isModifiedKey(snap, base, target, filePath, targetLang, key) ==
    LET stillEnglish == Get(target, key) = Get(base, key)
        hasSnapshot  == filePath # <<>> /\ targetLang # <<>>
    IN  IF hasSnapshot
        THEN IF ~HasSnapshotHash(snap, filePath, targetLang, key)
             THEN stillEnglish
             ELSE getSnapshotHash(snap, filePath, targetLang, key) # md5(Get(base, key))
        ELSE stillEnglish

\* addedKeys with the negation of its test dropped
addedKeysInverted(baseKeys, targetKeys) ==
    SelectSeq(baseKeys, LAMBDA k : SeqIncludes(targetKeys, k))

\* removedKeys with the negation of its test dropped
removedKeysInverted(allBaseKeys, targetKeys) ==
    SelectSeq(targetKeys, LAMBDA k : SeqIncludes(allBaseKeys, k))

\* the loop over baseKeys, first branch: the keys the target lacks
addedKeys(baseKeys, targetKeys) ==
    SelectSeq(baseKeys, LAMBDA k : ~SeqIncludes(targetKeys, k))

\* the loop over targetKeys: the keys the base lacks, skipped ones counted as base keys
removedKeys(allBaseKeys, targetKeys) ==
    SelectSeq(targetKeys, LAMBDA k : ~SeqIncludes(allBaseKeys, k))

\* filePath and targetLang are optional: <<>> stands for an omitted one
analyzeDiff(snap, baseContent, targetContent, skipPatterns, filePath, targetLang) ==
    LET baseFlattened   == flatten(baseContent)
        targetFlattened == IF targetContent.ok THEN flatten(targetContent.tree) ELSE <<>>
        allBaseKeys     == Keys(baseFlattened)
        skipped    == SelectSeq(allBaseKeys, LAMBDA k : isKeySkipped(k, skipPatterns))
        baseKeys   == SelectSeq(allBaseKeys, LAMBDA k : ~SeqIncludes(skipped, k))
        targetKeys == Keys(targetFlattened)
        mod(k)     == isModifiedKey(snap, baseFlattened, targetFlattened,
                                    filePath, targetLang, k)
    IN  [added     |-> addedKeys(baseKeys, targetKeys),
         modified  |-> SelectSeq(baseKeys, LAMBDA k : SeqIncludes(targetKeys, k) /\ mod(k)),
         removed   |-> removedKeys(allBaseKeys, targetKeys),
         skipped   |-> skipped,
         unchanged |-> SelectSeq(baseKeys, LAMBDA k : SeqIncludes(targetKeys, k) /\ ~mod(k))]

-----------------------------------------------------------------------------
(* translator: Translator.mergeTranslations *)

\* the value the merge loop gives one base key
\* a precedence that prefers the prior target value to a new translation
mergeValueKeepsTarget(baseFlattened, targetFlattened, translations, skippedKeys, key) ==
    IF /\ Has(targetFlattened, key)
       /\ Get(targetFlattened, key) # <<>>
       /\ Get(targetFlattened, key) # Get(baseFlattened, key)
    THEN Get(targetFlattened, key)
    ELSE IF Has(translations, key) THEN Get(translations, key)
    ELSE Get(baseFlattened, key)

mergeValue(baseFlattened, targetFlattened, translations, skippedKeys, key) ==
    IF Has(translations, key) THEN Get(translations, key)
    ELSE IF SeqIncludes(skippedKeys, key) THEN Get(baseFlattened, key)
    ELSE IF /\ Has(targetFlattened, key)
            /\ Get(targetFlattened, key) # <<>>
            /\ Get(targetFlattened, key) # Get(baseFlattened, key)
         THEN Get(targetFlattened, key)
    ELSE Get(baseFlattened, key)

\* mergeFlat that starts from the prior target instead of from nothing
mergeFlatOntoTarget(baseContent, targetContent, translations, skippedKeys) ==
    LET baseFlattened   == flatten(baseContent)
        targetFlattened == IF targetContent.ok THEN flatten(targetContent.tree) ELSE <<>>
        stale == SelectSeq(targetFlattened, LAMBDA e : ~Has(baseFlattened, e.key))
    IN  stale \o
        [i \in 1..Len(baseFlattened) |->
            [key |-> baseFlattened[i].key,
             val |-> mergeValue(baseFlattened, targetFlattened, translations,
                                skippedKeys, baseFlattened[i].key)]]

\* the object `result` the merge loop builds, before it is re-nested
mergeFlat(baseContent, targetContent, translations, skippedKeys) ==
    LET baseFlattened   == flatten(baseContent)
        targetFlattened == IF targetContent.ok THEN flatten(targetContent.tree) ELSE <<>>
    IN  [i \in 1..Len(baseFlattened) |->
            [key |-> baseFlattened[i].key,
             val |-> mergeValue(baseFlattened, targetFlattened, translations,
                                skippedKeys, baseFlattened[i].key)]]

mergeTranslations(baseContent, targetContent, translations, skippedKeys) ==
    unflatten(mergeFlat(baseContent, targetContent, translations, skippedKeys))

-----------------------------------------------------------------------------
(* cache-manager: CacheManager *)

CACHE_VERSION == <<"1", ".", "0", ".", "0">>

\* md5 of `${sourceText}:${targetLang}`
generateKey(sourceText, targetLang) == md5(sourceText \o <<":">> \o targetLang)

\* a get that trusts the key alone
cacheHasKeyOnly(entries, sourceText, targetLang) ==
    generateKey(sourceText, targetLang) \in DOMAIN entries

\* CacheManager.get returns a translation (not undefined)
cacheHas(entries, sourceText, targetLang) ==
    LET key == generateKey(sourceText, targetLang)
    IN  key \in DOMAIN entries /\ entries[key].sourceText = sourceText

cacheGet(entries, sourceText, targetLang) ==
    entries[generateKey(sourceText, targetLang)].translatedText

\* Date.now() is left out of the entry: nothing in the pipeline reads it
cacheSet(entries, sourceText, translatedText, targetLang, model) ==
    FnPut(entries, generateKey(sourceText, targetLang),
          [sourceText |-> sourceText, translatedText |-> translatedText,
           targetLang |-> targetLang, model |-> model])

\* a load that takes the entries of a file of any version
cacheLoadAnyVersion(file) == IF file.ok THEN file.entries ELSE EmptyFn

\* a save that writes whatever the flag says
saveWritesAlways(dirty) == TRUE

\* CacheManager.save goes on to write: not `if (!this.dirty) return`
saveWrites(dirty) == dirty

\* the entries CacheManager.load leaves in memory for a cache file
cacheLoad(file) ==
    IF file.ok /\ file.version = CACHE_VERSION THEN file.entries ELSE EmptyFn

\* the snapshot loadSnapshot leaves in memory for a snapshot file
loadSnapshot(file) == IF file.ok THEN file.data ELSE EmptyFn

-----------------------------------------------------------------------------
(* prompt-builder.ts *)

\* stand-ins for the characters of the range 一-龥
ChineseChars == {"zhong", "wen"}

\* Math.ceil(chineseChars + nonChineseChars / 4)
estimateTokens(prompt) ==
    LET chineseChars    == Cardinality({i \in 1..Len(prompt) : prompt[i] \in ChineseChars})
        nonChineseChars == Len(prompt) - chineseChars
    IN  chineseChars + ((nonChineseChars + 3) \div 4)

\* `${task.key}: ${task.sourceText}`
taskTokens(task) == estimateTokens(task.key \o <<":", " ">> \o task.sourceText)

\* a loop that leaves out a task whose own estimate exceeds the ceiling
RECURSIVE batchLoopDropsOversize(_, _, _, _, _)
batchLoopDropsOversize(tasks, maxTokens, batches, currentBatch, currentTokenCount) ==
    IF tasks = <<>>
    THEN IF currentBatch # <<>> THEN Append(batches, currentBatch) ELSE batches
    ELSE LET task == tasks[1]
             n    == taskTokens(task)
         IN  IF n > maxTokens
             THEN batchLoopDropsOversize(Tail(tasks), maxTokens, batches, currentBatch,
                                         currentTokenCount)
             ELSE IF currentTokenCount + n > maxTokens /\ currentBatch # <<>>
             THEN batchLoopDropsOversize(Tail(tasks), maxTokens,
                                         Append(batches, currentBatch), <<task>>, n)
             ELSE batchLoopDropsOversize(Tail(tasks), maxTokens, batches,
                                         Append(currentBatch, task),
                                         currentTokenCount + n)

\* the loop of batchTasksByTokenLimit over the tasks left, with its three locals
RECURSIVE batchLoop(_, _, _, _, _)
batchLoop(tasks, maxTokens, batches, currentBatch, currentTokenCount) ==
    IF tasks = <<>>
    THEN IF currentBatch # <<>> THEN Append(batches, currentBatch) ELSE batches
    ELSE LET task == tasks[1]
             n    == taskTokens(task)
         IN  IF n > maxTokens
             THEN batchLoop(Tail(tasks), maxTokens,
                            (IF currentBatch # <<>> THEN Append(batches, currentBatch)
                                                    ELSE batches) \o << <<task>> >>,
                            IF currentBatch # <<>> THEN <<>> ELSE currentBatch,
                            IF currentBatch # <<>> THEN 0 ELSE currentTokenCount)
             ELSE IF currentTokenCount + n > maxTokens /\ currentBatch # <<>>
             THEN batchLoop(Tail(tasks), maxTokens, Append(batches, currentBatch),
                            <<task>>, n)
             ELSE batchLoop(Tail(tasks), maxTokens, batches,
                            Append(currentBatch, task), currentTokenCount + n)

\* a batching that hands every batch out twice
batchTasksTwice(tasks, maxTokens) ==
    batchLoop(tasks, maxTokens, <<>>, <<>>, 0) \o batchLoop(tasks, maxTokens, <<>>, <<>>, 0)

batchTasksByTokenLimit(tasks, maxTokens) == batchLoop(tasks, maxTokens, <<>>, <<>>, 0)

-----------------------------------------------------------------------------
(* The values the model draws its inputs from *)

NameA == <<"a">>

NameB == <<"b">>

NameC == <<"c">>

NameAB == <<"a", ".", "b">>

Hello == <<"H", "e", "l", "l", "o">>

Hi == <<"H", "i">>

Bonjour == <<"B", "o", "n", "j", "o", "u", "r">>

Salut == <<"S", "a", "l", "u", "t">>

File1 == <<"f", "1">>

File2 == <<"f", "2">>

FR == <<"f", "r">>

\* every object with distinct keys among names and values among vals, in every order
ObjectsOf(names, vals) ==
    UNION {{o \in [1..m -> [key : names, val : vals]] :
                \A i, j \in 1..m : i # j => o[i].key # o[j].key} :
           m \in 0..Cardinality(names)}

\* the same, keys in the order of the sequence order only
OrderedObjectsOf(order, vals) ==
    {o \in ObjectsOf(Range(order), vals) :
        \A i, j \in 1..Len(o) : i < j =>
            \E x, y \in 1..Len(order) : x < y /\ order[x] = o[i].key /\ order[y] = o[j].key}

Obj1(k, v) == <<[key |-> k, val |-> v]>>

\* the patterns of README's skipKeys example and of isKeySkipped's examples
SkipChoices ==
    {<<>>, <<NameA>>, << <<"a", ".", "*", "*">> >>, << <<"*", "*", ".", "b">> >>}

NoRet == [done |-> FALSE]

-----------------------------------------------------------------------------
(* SpecDiff: analyzeDiff applied to drawn arguments and a drawn snapshot *)

DiffBases ==
    ObjectsOf({NameA, NameB},
              {StrLeaf(Hello), StrLeaf(Hi), OtherLeaf, ObjNode(Obj1(NameB, StrLeaf(Hello)))})

DiffTargets ==
    {NoContent} \cup
    {Content(t) : t \in OrderedObjectsOf(<<NameA, NameB>>,
        {StrLeaf(Hello), StrLeaf(Bonjour), StrLeaf(<<>>), OtherLeaf,
         ObjNode(Obj1(NameB, StrLeaf(Bonjour)))})}

DiffSnapshots ==
    {EmptyFn} \cup
    {[k \in {SnapshotKey(File1, FR)} |-> h] :
        h \in UNION {[D -> {md5(Hello), md5(Hi)}] : D \in SUBSET {NameA, NameB}}}

\* what the pipeline variables hold while a pure function is under check
PipelineUnused ==
    /\ snapshotDirty = FALSE
    /\ snapshotFile = EmptyFn
    /\ cache = EmptyFn
    /\ cacheDirty = FALSE
    /\ cacheFile = EmptyFn
    /\ baseFile = EmptyFn
    /\ targetFile = EmptyFn
    /\ skipKeys = <<>>
    /\ force = FALSE
    /\ proc = "none"
    /\ pl = EmptyFn
    /\ limitQueue = <<>>
    /\ activeCount = 0
    /\ failures = <<>>
    /\ sent = <<>>
    /\ hist = EmptyFn

pipelineVars == <<snapshotDirty, snapshotFile, cache, cacheDirty, cacheFile, baseFile,
                  targetFile, skipKeys, force, proc, pl, limitQueue, activeCount,
                  failures, sent, hist>>

InitDiff ==
    /\ \E b \in DiffBases, t \in DiffTargets, sk \in SkipChoices, fp \in {<<>>, File1} :
          call = [fn |-> "analyzeDiff", baseContent |-> b, targetContent |-> t,
                  skipPatterns |-> sk, filePath |-> fp, targetLang |-> FR]
    /\ snapshot \in DiffSnapshots
    /\ (call.filePath = <<>> => snapshot = EmptyFn)
    /\ ret = NoRet
    /\ PipelineUnused

ApplyAnalyzeDiff ==
    /\ call.fn = "analyzeDiff"
    /\ ~ret.done
    /\ ret' = [done |-> TRUE,
               val  |-> analyzeDiff(snapshot, call.baseContent, call.targetContent,
                                    call.skipPatterns, call.filePath, call.targetLang)]
    /\ UNCHANGED <<call, snapshot, pipelineVars>>

NextDiff == ApplyAnalyzeDiff

SpecDiff == InitDiff /\ [][NextDiff]_vars

-----------------------------------------------------------------------------
(* Claims about analyzeDiff (SpecDiff) *)

DiffDone == call.fn = "analyzeDiff" /\ ret.done

DiffBaseFlat == flatten(call.baseContent)

DiffTargetFlat == IF call.targetContent.ok THEN flatten(call.targetContent.tree) ELSE <<>>

DiffUnskipped == {k \in KeySet(DiffBaseFlat) : ~isKeySkipped(k, call.skipPatterns)}

NoDuplicates(s) == \A i, j \in 1..Len(s) : i # j => s[i] # s[j]

\* C2: the five sets analyzeDiff returns are pairwise disjoint, hold no key twice,
\* and their union is the union of the flattened base keys and the flattened
\* target keys; a base key that matches a skip pattern is in skipped and in no
\* other set.
C2_DiffPartitions ==
    DiffDone =>
        LET d     == ret.val
            parts == <<d.added, d.modified, d.removed, d.skipped, d.unchanged>>
        IN  /\ \A i \in 1..5 : NoDuplicates(parts[i])
            /\ \A i, j \in 1..5 : i # j => Range(parts[i]) \cap Range(parts[j]) = {}
            /\ UNION {Range(parts[i]) : i \in 1..5}
                   = KeySet(DiffBaseFlat) \cup KeySet(DiffTargetFlat)
            /\ \A k \in KeySet(DiffBaseFlat) :
                   isKeySkipped(k, call.skipPatterns) =>
                       /\ k \in Range(d.skipped)
                       /\ k \notin Range(d.added) \cup Range(d.modified)
                                   \cup Range(d.removed) \cup Range(d.unchanged)

\* a diff with a skipped key that the target also holds, a removed key and a
\* key that is added, modified or unchanged
C2_Witness ==
    /\ DiffDone
    /\ \E k \in Range(ret.val.skipped) : Has(DiffTargetFlat, k)
    /\ ret.val.removed # <<>>
    /\ ret.val.added \o ret.val.modified \o ret.val.unchanged # <<>>

\* C3: an unskipped base key k with source text s whose target value t exists is,
\* with no snapshot hash stored for (file, targetLang, k), modified if t = s and
\* unchanged otherwise; with a hash stored it is modified if md5(s) differs from
\* the stored hash and unchanged if it is equal, whatever t is.
C3_ModifiedOrUnchanged ==
    DiffDone =>
        \A k \in DiffUnskipped :
            Has(DiffTargetFlat, k) =>
                LET s      == Get(DiffBaseFlat, k)
                    t      == Get(DiffTargetFlat, k)
                    stored == /\ call.filePath # <<>>
                              /\ HasSnapshotHash(snapshot, call.filePath, call.targetLang, k)
                    isMod  == k \in Range(ret.val.modified) /\ k \notin Range(ret.val.unchanged)
                    isUnch == k \in Range(ret.val.unchanged) /\ k \notin Range(ret.val.modified)
                IN  IF stored
                    THEN IF getSnapshotHash(snapshot, call.filePath, call.targetLang, k) # md5(s)
                         THEN isMod ELSE isUnch
                    ELSE IF t = s THEN isMod ELSE isUnch

\* a key with a stored hash of another source text and a target value that is
\* neither the old nor the new source text is modified, and a key whose target
\* still equals the source but whose hash is current is unchanged
C3_Witness ==
    /\ DiffDone
    /\ \E k \in Range(ret.val.modified) :
          /\ HasSnapshotHash(snapshot, call.filePath, call.targetLang, k)
          /\ Get(DiffTargetFlat, k) = Bonjour
    /\ \E k \in Range(ret.val.unchanged) :
          /\ HasSnapshotHash(snapshot, call.filePath, call.targetLang, k)
          /\ Get(DiffTargetFlat, k) = Get(DiffBaseFlat, k)

\* C5: an unskipped base key absent from the target is added; with no target
\* content at all, added is exactly the set of unskipped base keys and
\* modified, unchanged and removed are empty.
C5_AbsentIsAdded ==
    DiffDone =>
        /\ \A k \in DiffUnskipped : ~Has(DiffTargetFlat, k) => k \in Range(ret.val.added)
        /\ ~call.targetContent.ok =>
              /\ Range(ret.val.added) = DiffUnskipped
              /\ ret.val.modified = <<>>
              /\ ret.val.unchanged = <<>>
              /\ ret.val.removed = <<>>

\* there is no target content, one base key is added and another is skipped
C5_Witness ==
    /\ DiffDone
    /\ ~call.targetContent.ok
    /\ ret.val.added # <<>>
    /\ ret.val.skipped # <<>>

-----------------------------------------------------------------------------
(* SpecMerge: mergeTranslations applied to drawn arguments *)

\* base trees with nested and with flat dotted names, among them trees in which
\* one key path is a dotted prefix of another ({"a": .., "a.b": ..})
MergeBases ==
    ObjectsOf({NameA, NameB, NameAB},
              {StrLeaf(Hello), ObjNode(Obj1(NameB, StrLeaf(Hi)))})

MergeTargets ==
    {NoContent} \cup
    {Content(t) : t \in OrderedObjectsOf(<<NameA, NameB, NameAB>>,
        {StrLeaf(Hello), StrLeaf(Bonjour), StrLeaf(<<>>)})}

MergeTranslations == OrderedObjectsOf(<<NameA, NameAB>>, {Salut})

MergeSkipped == {<<>>, <<NameA>>, <<NameB>>, <<NameA, NameB>>}

InitMerge ==
    /\ \E b \in MergeBases, t \in MergeTargets, tr \in MergeTranslations,
          sk \in MergeSkipped :
          call = [fn |-> "mergeTranslations", baseContent |-> b, targetContent |-> t,
                  translations |-> tr, skippedKeys |-> sk]
    /\ snapshot = EmptyFn
    /\ ret = NoRet
    /\ PipelineUnused

ApplyMergeTranslations ==
    /\ call.fn = "mergeTranslations"
    /\ ~ret.done
    /\ ret' = [done |-> TRUE,
               val  |-> mergeTranslations(call.baseContent, call.targetContent,
                                          call.translations, call.skippedKeys)]
    /\ UNCHANGED <<call, snapshot, pipelineVars>>

NextMerge == ApplyMergeTranslations

SpecMerge == InitMerge /\ [][NextMerge]_vars

-----------------------------------------------------------------------------
(* Claims about mergeTranslations (SpecMerge) *)

MergeDone == call.fn = "mergeTranslations" /\ ret.done

MergeBaseFlat == flatten(call.baseContent)

MergeTargetFlat == IF call.targetContent.ok THEN flatten(call.targetContent.tree) ELSE <<>>

MergedFlat == flatten(ret.val)

\* the value C7 gives a base key
C7_ClaimedValue(k) ==
    IF Has(call.translations, k) THEN Get(call.translations, k)
    ELSE IF SeqIncludes(call.skippedKeys, k) THEN Get(MergeBaseFlat, k)
    ELSE IF Has(MergeTargetFlat, k) /\ Get(MergeTargetFlat, k) # Get(MergeBaseFlat, k)
         THEN Get(MergeTargetFlat, k)
    ELSE Get(MergeBaseFlat, k)

\* C7: mergeTranslations gives every base key its value by the precedence
\* (1) this run's translation, else (2) the base value if the key is skip-listed,
\* else (3) the prior target value if the target has a value for the key that
\* differs from the base value, else (4) the base value.  (Stated of the base
\* keys the merged tree holds.)
C7_MergePrecedence ==
    MergeDone =>
        \A k \in KeySet(MergeBaseFlat) :
            Has(MergedFlat, k) => Get(MergedFlat, k) = C7_ClaimedValue(k)

\* no key path is another key path followed by a dot and more
PrefixFree(keys) ==
    \A k1, k2 \in keys : k1 # k2 => ~StartsWith(k2, k1 \o Dot)

\* C8 as stated: the flattened key set of the merged tree equals the flattened
\* key set of the base, and a key of the prior target that the base lacks never
\* appears in the merged output.
C8_MergedKeysEqualBaseKeys ==
    MergeDone =>
        /\ KeySet(MergedFlat) = KeySet(MergeBaseFlat)
        /\ \A k \in KeySet(MergeTargetFlat) \ KeySet(MergeBaseFlat) : ~Has(MergedFlat, k)

\* C8 amended: the flattened key set of the merged tree is a subset of the
\* flattened key set of the base, and equals it when no base key path is a
\* dotted prefix of another; a key of the prior target that the base lacks
\* never appears in the merged output.
C8_MergedKeysWithinBaseKeys ==
    MergeDone =>
        /\ KeySet(MergedFlat) \subseteq KeySet(MergeBaseFlat)
        /\ PrefixFree(KeySet(MergeBaseFlat)) => KeySet(MergedFlat) = KeySet(MergeBaseFlat)
        /\ \A k \in KeySet(MergeTargetFlat) \ KeySet(MergeBaseFlat) : ~Has(MergedFlat, k)

\* a merge over a prior target that holds a key the base lacks, next to a key
\* both hold, with a base of two key paths
C8_Witness ==
    /\ MergeDone
    /\ KeySet(MergeTargetFlat) \ KeySet(MergeBaseFlat) # {}
    /\ KeySet(MergeTargetFlat) \cap KeySet(MergeBaseFlat) # {}
    /\ Cardinality(KeySet(MergeBaseFlat)) = 2
    /\ PrefixFree(KeySet(MergeBaseFlat))

-----------------------------------------------------------------------------
(* Spec: runs of the cli over a locales directory.  One action per stretch of
   code between two awaits of index.ts's action, Translator.translateAll,
   translateFile and executeTranslations; the translation service answers
   each batch with any outcome translateBatch can return. *)

\* config.concurrency
Concurrency == 2

\* config.batchSize
BatchSize == 4

\* the width the constructor falls back to when config.concurrency is falsy
DefaultConcurrency == 5

\* `config.concurrency || 5`
limitWidth(configured) == IF configured = 0 THEN DefaultConcurrency ELSE configured

\* a limiter that starts every function at once
limitAdmitsAlways(active) == TRUE

\* p-limit starts a queued function only while fewer than its width are running
limitAdmits(active) == active < limitWidth(Concurrency)

\* processes started one after the other
MaxRuns == 2

\* edits of locale files between two processes
MaxEdits == 1

\* config.llm.model
ModelName == <<"m">>

\* getAllFiles: every file of the base directory crossed with config.targetLangs
Pipelines == {<<f, FR>> : f \in DOMAIN baseFile}

NoDiff == [added |-> <<>>, modified |-> <<>>, removed |-> <<>>, skipped |-> <<>>,
           unchanged |-> <<>>]

\* the locals of one translateFile call before its first statement
IdlePipeline ==
    [pc |-> "idle", baseContent |-> NoContent, targetContent |-> NoContent,
     diff |-> NoDiff, tasks |-> <<>>, translations |-> <<>>, batches |-> <<>>,
     batchState |-> <<>>, batchResults |-> <<>>, mergedContent |-> <<>>,
     success |-> FALSE, error |-> ""]

EmptyCacheFile == [ok |-> FALSE, version |-> <<>>, entries |-> EmptyFn]

EmptySnapshotFile == [ok |-> FALSE, data |-> EmptyFn]

NothingSent == [requests |-> 0, texts |-> EmptyFn, keys |-> {}]

\* updateSnapshot for each key of keys, with the text the object texts has for it
RECURSIVE updateSnapshotAll(_, _, _, _, _)
updateSnapshotAll(snap, filePath, targetLang, keys, texts) ==
    IF keys = <<>> THEN snap
    ELSE updateSnapshotAll(
             updateSnapshot(snap, filePath, targetLang, keys[1], Get(texts, keys[1])),
             filePath, targetLang, Tail(keys), texts)

\* buildTasks that makes a task of every base key
buildTasksAllKeys(keys, baseFlattened, targetLang, filePath) ==
    [i \in 1..Len(baseFlattened) |->
        [key |-> baseFlattened[i].key, sourceText |-> baseFlattened[i].val,
         targetLang |-> targetLang, filePath |-> filePath]]

\* translateFile's loop that turns [...diff.added, ...diff.modified] into tasks
buildTasks(keys, baseFlattened, targetLang, filePath) ==
    [i \in 1..Len(keys) |->
        [key |-> keys[i], sourceText |-> Get(baseFlattened, keys[i]),
         targetLang |-> targetLang, filePath |-> filePath]]

\* executeTranslations: `if (cached)` for one task
cacheHit(entries, task) ==
    /\ cacheHas(entries, task.sourceText, task.targetLang)
    /\ cacheGet(entries, task.sourceText, task.targetLang) # <<>>

\* executeTranslations, first loop: the results map filled from the cache
RECURSIVE cachedResults(_, _, _)
cachedResults(entries, tasks, results) ==
    IF tasks = <<>> THEN results
    ELSE cachedResults(entries, Tail(tasks),
             IF cacheHit(entries, tasks[1])
             THEN Put(results, tasks[1].key,
                      cacheGet(entries, tasks[1].sourceText, tasks[1].targetLang))
             ELSE results)

\* executeTranslations, first loop: the tasks the cache does not answer
tasksToTranslate(entries, tasks) ==
    SelectSeq(tasks, LAMBDA t : ~cacheHit(entries, t))

\* parseBatchResponse's result for one task
okResult(task, text) ==
    [key |-> task.key, translatedText |-> text, targetLang |-> task.targetLang,
     success |-> TRUE, error |-> ""]

failResult(task, msg) ==
    [key |-> task.key, translatedText |-> <<>>, targetLang |-> task.targetLang,
     success |-> FALSE, error |-> msg]

\* what translateBatch can return for one task when the request succeeded:
\* a non-empty string (a translation, or the source text echoed), or not found
taskOutcomes(task) ==
    {okResult(task, Bonjour), failResult(task, "Translation not found in response")}
    \cup (IF task.sourceText # <<>> THEN {okResult(task, task.sourceText)} ELSE {})

\* a catch branch that fails the first task only and answers for the others
batchOutcomesFirstOnly(batch) ==
    {[i \in 1..Len(batch) |-> IF i = 1 THEN failResult(batch[i], "Translation failed")
                                       ELSE okResult(batch[i], Bonjour)]}

\* what translateBatch can return for a batch: the catch branch fails every
\* task with the request's error, the try branch gives one result per task
batchOutcomes(batch) ==
    {[i \in 1..Len(batch) |-> failResult(batch[i], "Translation failed")]}
    \cup {r \in [1..Len(batch) -> UNION {taskOutcomes(batch[i]) : i \in 1..Len(batch)}] :
            \A i \in 1..Len(batch) : r[i] \in taskOutcomes(batch[i])}

\* executeTranslations, last loop: results.set for the successes of one batch
RECURSIVE collectResults(_, _)
collectResults(results, batchResult) ==
    IF batchResult = <<>> THEN results
    ELSE collectResults(
             IF batchResult[1].success
             THEN Put(results, batchResult[1].key, batchResult[1].translatedText)
             ELSE results,
             Tail(batchResult))

\* a result loop that stores an entry for every result, failed or not
RECURSIVE collectCacheEveryResult(_, _, _)
collectCacheEveryResult(entries, batch, batchResult) ==
    IF batchResult = <<>> THEN entries
    ELSE LET res == batchResult[1]
             hit == {i \in 1..Len(batch) : batch[i].key = res.key}
             task == batch[CHOOSE i \in hit : \A j \in hit : i <= j]
         IN  collectCacheEveryResult(
                 IF hit # {}
                 THEN cacheSet(entries, task.sourceText, res.translatedText,
                               task.targetLang, ModelName)
                 ELSE entries,
                 batch, Tail(batchResult))

\* executeTranslations, last loop: cacheManager.set for the successes of one batch
RECURSIVE collectCache(_, _, _)
collectCache(entries, batch, batchResult) ==
    IF batchResult = <<>> THEN entries
    ELSE LET res == batchResult[1]
             hit == {i \in 1..Len(batch) : batch[i].key = res.key}
             task == batch[CHOOSE i \in hit : \A j \in hit : i <= j]
         IN  collectCache(
                 IF res.success /\ hit # {}
                 THEN cacheSet(entries, task.sourceText, res.translatedText,
                               task.targetLang, ModelName)
                 ELSE entries,
                 batch, Tail(batchResult))

\* a result loop that records no failure
collectFailuresNone(recorded, batch, batchResult) == recorded

\* FailureLogger.recordFailure for the failures of one batch, in result order
RECURSIVE collectFailures(_, _, _)
collectFailures(recorded, batch, batchResult) ==
    IF batchResult = <<>> THEN recorded
    ELSE LET res == batchResult[1]
             hit == {i \in 1..Len(batch) : batch[i].key = res.key}
             task == batch[CHOOSE i \in hit : \A j \in hit : i <= j]
         IN  collectFailures(
                 IF ~res.success /\ hit # {}
                 THEN Append(recorded,
                             [key |-> task.key, sourceText |-> task.sourceText,
                              targetLang |-> task.targetLang, filePath |-> task.filePath,
                              error |-> res.error])
                 ELSE recorded,
                 batch, Tail(batchResult))

\* the three collections over all batches of a call, in batch order
RECURSIVE collectAll(_, _, _, _)
collectAll(acc, batches, batchResults, i) ==
    IF i > Len(batches) THEN acc
    ELSE collectAll(
             [results  |-> collectResults(acc.results, batchResults[i]),
              entries  |-> collectCache(acc.entries, batches[i], batchResults[i]),
              recorded |-> collectFailures(acc.recorded, batches[i], batchResults[i])],
             batches, batchResults, i + 1)

\* a bag with one more occurrence of x
BagAdd(bag, x) == FnPut(bag, x, IF x \in DOMAIN bag THEN bag[x] + 1 ELSE 1)

\* the outbound request of one batch: each task's text goes to the service
RECURSIVE sendBatch(_, _)
sendBatch(texts, batch) ==
    IF batch = <<>> THEN texts
    ELSE sendBatch(BagAdd(texts, <<batch[1].sourceText, batch[1].targetLang>>), Tail(batch))

\* snapshotTranslations that records nothing
snapshotTranslationsSkipped(snap, filePath, targetLang, translations, tasks) == snap

\* a loop that records the hash of every task's source text, translated or not
RECURSIVE snapshotEveryTask(_, _, _, _, _)
snapshotEveryTask(snap, filePath, targetLang, translations, tasks) ==
    IF tasks = <<>> THEN snap
    ELSE snapshotEveryTask(
             updateSnapshot(snap, filePath, targetLang, tasks[1].key, tasks[1].sourceText),
             filePath, targetLang, translations, Tail(tasks))

\* translateFile's loop over the translations map: updateSnapshot for each
\* translated key that has a task
RECURSIVE snapshotTranslations(_, _, _, _, _)
snapshotTranslations(snap, filePath, targetLang, translations, tasks) ==
    IF translations = <<>> THEN snap
    ELSE LET key == translations[1].key
             hit == {i \in 1..Len(tasks) : tasks[i].key = key}
             task == tasks[CHOOSE i \in hit : \A j \in hit : i <= j]
         IN  snapshotTranslations(
                 IF hit # {}
                 THEN updateSnapshot(snap, filePath, targetLang, key, task.sourceText)
                 ELSE snap,
                 filePath, targetLang, Tail(translations), tasks)

\* the locale trees the runs start from and are edited to
BaseTrees ==
    {<<>>,
     Obj1(NameA, StrLeaf(Hello)),
     Obj1(NameA, StrLeaf(Hi)),
     Obj1(NameA, StrLeaf(Hello)) \o Obj1(NameB, StrLeaf(Hello))
         \o Obj1(NameC, StrLeaf(Hi)),
     Obj1(NameA, ObjNode(Obj1(NameB, StrLeaf(Hello))))}

TargetTrees ==
    {Obj1(NameA, StrLeaf(Bonjour)),
     Obj1(NameA, StrLeaf(Hello)),
     Obj1(NameA, StrLeaf(Bonjour)) \o Obj1(NameB, StrLeaf(Salut))}

\* a file that cannot be read or parsed, or the tree JSON.parse gives
BaseFiles == {NoContent} \cup {Content(t) : t \in BaseTrees}

TargetFiles == {NoContent} \cup {Content(t) : t \in TargetTrees}

PipelineSkipChoices == {<<>>, <<NameB>>}

\* the snapshot file a directory can start with: none, or the one an earlier
\* process left after it reconciled key a of the first file with the text Hello
SnapshotFiles ==
    {EmptySnapshotFile,
     [ok |-> TRUE, data |-> updateSnapshot(EmptyFn, File1, FR, NameA, Hello)]}

\* the version string an earlier release of the tool wrote
OLD_CACHE_VERSION == <<"0", ".", "9", ".", "0">>

\* the cache file a directory can start with: none, or one written by an
\* earlier release, holding a translation of Hello
CacheFiles ==
    {EmptyCacheFile,
     [ok |-> TRUE, version |-> OLD_CACHE_VERSION,
      entries |-> cacheSet(EmptyFn, Hello, Salut, FR, ModelName)]}

\* hist is the record of what happened, which no code reads: the processes
\* that have exited, the edits made, whether the last process ended with every
\* file and every translation succeeding, how many requests it sent, the base
\* files it saw, whether it ran in force mode, the keys whose translation
\* failed in it, whether a file was edited since, and its exit status
\* before the first process: nothing in memory
FreshStores ==
    /\ call = [fn |-> "cli"]
    /\ ret = NoRet
    /\ snapshot = EmptyFn
    /\ snapshotDirty = FALSE
    /\ snapshotFile \in SnapshotFiles
    /\ cache = EmptyFn
    /\ cacheDirty = FALSE
    /\ cacheFile \in CacheFiles
    /\ skipKeys \in PipelineSkipChoices
    /\ force = FALSE
    /\ proc = "down"
    /\ pl = [p \in Pipelines |-> IdlePipeline]
    /\ limitQueue = <<>>
    /\ activeCount = 0
    /\ failures = <<>>
    /\ sent = NothingSent
    /\ hist = [runs |-> 0, edits |-> 0, prevClean |-> FALSE, prevRequests |-> 0,
               prevBase |-> EmptyFn, prevForce |-> FALSE, prevFailed |-> {},
               prevObtained |-> {},
               changed |-> FALSE, exitCode |-> 0]

\* a locales directory with two base files, the second one never translated yet
Init ==
    /\ \E b \in BaseFiles :
          baseFile = [f \in {File1, File2} |->
                         IF f = File1 THEN b ELSE Content(Obj1(NameA, StrLeaf(Hello)))]
    /\ \E t \in TargetFiles :
          targetFile = [p \in Pipelines |-> IF p[1] = File1 THEN t ELSE NoContent]
    /\ FreshStores

\* index.ts action up to translateAll's files.map: initialize() loads both
\* stores, --force clears and saves the cache and sets the flag, and every
\* translateFile call starts and stops at its first read
StartProcess(forceOption) ==
    /\ cache' = IF forceOption THEN EmptyFn ELSE cacheLoad(cacheFile)
    /\ cacheFile' = IF forceOption
                    THEN [ok |-> TRUE, version |-> CACHE_VERSION, entries |-> EmptyFn]
                    ELSE cacheFile
    /\ cacheDirty' = FALSE
    /\ snapshot' = loadSnapshot(snapshotFile)
    /\ snapshotDirty' = FALSE
    /\ force' = forceOption
    /\ proc' = "running"
    /\ pl' = [p \in Pipelines |-> [IdlePipeline EXCEPT !.pc = "readBase"]]
    /\ limitQueue' = <<>>
    /\ activeCount' = 0
    /\ failures' = <<>>
    /\ sent' = NothingSent
    /\ hist' = [hist EXCEPT !.prevObtained = {}]
    /\ UNCHANGED <<call, ret, snapshotFile, baseFile, targetFile, skipKeys>>

\* the first process over the directory
RunCli(forceOption) ==
    /\ proc = "down"
    /\ StartProcess(forceOption)

\* translateFile: the base file is read; a failure is caught as the file's error
ReadBase(p) ==
    /\ proc = "running"
    /\ pl[p].pc = "readBase"
    /\ pl' = IF baseFile[p[1]].ok
             THEN [pl EXCEPT ![p].baseContent = baseFile[p[1]], ![p].pc = "readTarget"]
             ELSE [pl EXCEPT ![p].success = FALSE,
                             ![p].error = "Failed to read base file",
                             ![p].pc = "done"]
    /\ UNCHANGED <<call, ret, snapshot, snapshotDirty, snapshotFile, cache, cacheDirty,
                   cacheFile, baseFile, targetFile, skipKeys, force, proc, limitQueue,
                   activeCount, failures, sent, hist>>

\* a diff that is given the target in force mode too
diffTargetAlways(forceMode, targetContent) == targetContent

\* the target content translateFile hands to analyzeDiff: none in force mode
diffTarget(forceMode, targetContent) == IF forceMode THEN NoContent ELSE targetContent

\* an early return that writes the target whatever the diff holds
rewritesTargetAlways(diff) == TRUE

\* translateFile's early return writes the target: `if (diff.removed.length > 0)`
rewritesTarget(diff) == diff.removed # <<>>

\* translateFile from the target read to its next await: the diff, the snapshot
\* updates for unchanged and removed keys, and then either the early return,
\* the write of a removal-only merge, or executeTranslations up to its await
ReadTarget(p) ==
    /\ proc = "running"
    /\ pl[p].pc = "readTarget"
    /\ LET filePath      == p[1]
           targetLang    == p[2]
           baseContent   == pl[p].baseContent.tree
           targetContent == targetFile[p]
           diff == analyzeDiff(snapshot, baseContent,
                               diffTarget(force, targetContent),
                               skipKeys, filePath, targetLang)
           baseFlattened == flatten(baseContent)
           snap1 == updateSnapshotAll(snapshot, filePath, targetLang,
                                      diff.unchanged, baseFlattened)
           snap2 == IF diff.removed # <<>>
                    THEN removeSnapshotKeys(snap1, filePath, targetLang, diff.removed)
                    ELSE snap1
           dirty == \/ snapshotDirty
                    \/ diff.unchanged # <<>>
                    \/ /\ diff.removed # <<>>
                       /\ removeSnapshotKeysDirties(snap1, filePath, targetLang)
           tasks   == buildTasks(diff.added \o diff.modified, baseFlattened,
                                 targetLang, filePath)
           results == cachedResults(cache, tasks, <<>>)
           toSend  == tasksToTranslate(cache, tasks)
           batches == batchTasksByTokenLimit(toSend, BatchSize)
           here    == [pl[p] EXCEPT !.targetContent = targetContent, !.diff = diff]
       IN  /\ snapshot' = snap2
           /\ snapshotDirty' = dirty
           /\ IF diff.added = <<>> /\ diff.modified = <<>>
              THEN /\ pl' = [pl EXCEPT ![p] =
                         IF rewritesTarget(diff)
                         THEN [here EXCEPT
                                 !.mergedContent = mergeTranslations(baseContent,
                                                     targetContent, <<>>, diff.skipped),
                                 !.pc = "write"]
                         ELSE [here EXCEPT !.success = TRUE, !.pc = "done"]]
                   /\ UNCHANGED limitQueue
              ELSE IF toSend = <<>>
              THEN /\ pl' = [pl EXCEPT ![p] =
                         [here EXCEPT !.tasks = tasks, !.translations = results,
                                      !.pc = "translated"]]
                   /\ UNCHANGED limitQueue
              ELSE /\ pl' = [pl EXCEPT ![p] =
                         [here EXCEPT !.tasks = tasks, !.translations = results,
                                      !.batches = batches,
                                      !.batchState = [i \in 1..Len(batches) |-> "queued"],
                                      !.batchResults = [i \in 1..Len(batches) |-> <<>>],
                                      !.pc = "awaitBatches"]]
                   /\ limitQueue' = limitQueue \o [i \in 1..Len(batches) |-> <<p, i>>]
    /\ UNCHANGED <<call, ret, snapshotFile, cache, cacheDirty, cacheFile, baseFile,
                   targetFile, skipKeys, force, proc, activeCount, failures, sent, hist>>

\* p-limit starts the oldest queued batch when a slot is free: translateBatch
\* builds the prompt and sends the request
StartBatch ==
    /\ proc = "running"
    /\ limitQueue # <<>>
    /\ limitAdmits(activeCount)
    /\ LET p == limitQueue[1][1]
           i == limitQueue[1][2]
       IN  /\ pl' = [pl EXCEPT ![p].batchState[i] = "inflight"]
           /\ sent' = [requests |-> sent.requests + 1,
                       keys     |-> sent.keys \cup
                                    {<<p[1], pl[p].batches[i][j].key>> :
                                        j \in 1..Len(pl[p].batches[i])},
                       texts    |-> sendBatch(sent.texts, pl[p].batches[i])]
    /\ limitQueue' = Tail(limitQueue)
    /\ activeCount' = activeCount + 1
    /\ UNCHANGED <<call, ret, snapshot, snapshotDirty, snapshotFile, cache, cacheDirty,
                   cacheFile, baseFile, targetFile, skipKeys, force, proc, failures, hist>>

\* translateBatch returns for a batch in flight and p-limit frees its slot
FinishBatch(p, i) ==
    /\ proc = "running"
    /\ pl[p].pc = "awaitBatches"
    /\ i \in 1..Len(pl[p].batches)
    /\ pl[p].batchState[i] = "inflight"
    /\ \E outcome \in batchOutcomes(pl[p].batches[i]) :
          pl' = [pl EXCEPT ![p].batchState[i] = "done", ![p].batchResults[i] = outcome]
    /\ activeCount' = activeCount - 1
    /\ UNCHANGED <<call, ret, snapshot, snapshotDirty, snapshotFile, cache, cacheDirty,
                   cacheFile, baseFile, targetFile, skipKeys, force, proc, limitQueue,
                   failures, sent, hist>>

\* executeTranslations after its Promise.all: the loop over allBatchResults
HandleResults(p) ==
    /\ proc = "running"
    /\ pl[p].pc = "awaitBatches"
    /\ \A i \in 1..Len(pl[p].batches) : pl[p].batchState[i] = "done"
    /\ LET all == collectAll([results |-> pl[p].translations, entries |-> cache,
                              recorded |-> failures],
                             pl[p].batches, pl[p].batchResults, 1)
       IN  /\ pl' = [pl EXCEPT ![p].translations = all.results, ![p].pc = "translated"]
           /\ cache' = all.entries
           /\ cacheDirty' = (cacheDirty \/ all.entries # cache
                             \/ \E i \in 1..Len(pl[p].batches) :
                                  \E j \in 1..Len(pl[p].batchResults[i]) :
                                      pl[p].batchResults[i][j].success)
           /\ failures' = all.recorded
    /\ UNCHANGED <<call, ret, snapshot, snapshotDirty, snapshotFile, cacheFile, baseFile,
                   targetFile, skipKeys, force, proc, limitQueue, activeCount, sent, hist>>

\* translateFile after executeTranslations: snapshot updates for the translated
\* keys and the merge, up to the await of the write
ContinueTranslateFile(p) ==
    /\ proc = "running"
    /\ pl[p].pc = "translated"
    /\ snapshot' = snapshotTranslations(snapshot, p[1], p[2], pl[p].translations,
                                        pl[p].tasks)
    /\ snapshotDirty' = (snapshotDirty \/ pl[p].translations # <<>>)
    /\ pl' = [pl EXCEPT
                ![p].mergedContent = mergeTranslations(pl[p].baseContent.tree,
                                        pl[p].targetContent, pl[p].translations,
                                        pl[p].diff.skipped),
                ![p].pc = "write"]
    /\ UNCHANGED <<call, ret, snapshotFile, cache, cacheDirty, cacheFile, baseFile,
                   targetFile, skipKeys, force, proc, limitQueue, activeCount, failures,
                   sent, hist>>

\* translateFile's mkdir and writeFile: the merged tree reaches the disk, or
\* the error is caught as the file's error
WriteTarget(p, ok) ==
    /\ proc = "running"
    /\ pl[p].pc = "write"
    /\ targetFile' = IF ok THEN [targetFile EXCEPT ![p] = Content(pl[p].mergedContent)]
                     ELSE targetFile
    /\ pl' = [pl EXCEPT ![p].success = ok,
                        ![p].error = IF ok THEN "" ELSE "write failed",
                        ![p].pc = "done"]
    /\ UNCHANGED <<call, ret, snapshot, snapshotDirty, snapshotFile, cache, cacheDirty,
                   cacheFile, baseFile, skipKeys, force, proc, limitQueue, activeCount,
                   failures, sent, hist>>

\* the translations a translateFile call obtained, each with its file, its key,
\* the source text of the key and whether the call returned success
obtained(p) ==
    {[filePath |-> p[1], targetLang |-> p[2], key |-> pl[p].translations[i].key,
      text |-> pl[p].translations[i].val,
      sourceText |-> Get(flatten(pl[p].baseContent.tree), pl[p].translations[i].key),
      success |-> pl[p].success] : i \in 1..Len(pl[p].translations)}

\* the cache file after cacheManager.save()
cacheSaved(dirty, file, entries) ==
    IF saveWrites(dirty) THEN [ok |-> TRUE, version |-> CACHE_VERSION, entries |-> entries]
    ELSE file

\* a saveSnapshot that writes nothing
snapshotNotSaved(dirty, file, snap) == file

\* the snapshot file after saveSnapshot()
snapshotSaved(dirty, file, snap) == IF dirty THEN [ok |-> TRUE, data |-> snap] ELSE file

\* translateAll's count of the results without success
failedFiles == Cardinality({p \in Pipelines : ~pl[p].success})

\* a cli that reports success whatever the count
exitStatusZero(failed) == 0

\* the cli's exit status: process.exit(1) if stats.failedFiles > 0
exitStatus(failed) == IF failed > 0 THEN 1 ELSE 0

\* translateAll after its Promise.all, and the end of the cli action: the
\* cache save, the snapshot save, the exit status; the process ends and its
\* memory with it
FinishTranslateAll ==
    /\ proc = "running"
    /\ \A p \in Pipelines : pl[p].pc = "done"
    /\ cacheFile' = cacheSaved(cacheDirty, cacheFile, cache)
    /\ cacheDirty' = FALSE
    /\ snapshotFile' = snapshotSaved(snapshotDirty, snapshotFile, snapshot)
    /\ snapshotDirty' = FALSE
    /\ proc' = "exited"
    /\ hist' = [hist EXCEPT
                  !.runs = hist.runs + 1,
                  !.changed = FALSE,
                  !.prevClean = /\ failures = <<>>
                                /\ \A p \in Pipelines : pl[p].success,
                  !.prevRequests = sent.requests,
                  !.prevBase = baseFile,
                  !.prevForce = force,
                  !.prevFailed = {<<failures[i].filePath, failures[i].key>> :
                                     i \in 1..Len(failures)},
                  !.prevObtained = UNION {obtained(p) : p \in Pipelines},
                  !.exitCode = exitStatus(failedFiles)]
    /\ snapshot' = EmptyFn
    /\ cache' = EmptyFn
    /\ force' = FALSE
    /\ pl' = [p \in Pipelines |-> IdlePipeline]
    /\ failures' = <<>>
    /\ sent' = NothingSent
    /\ UNCHANGED <<call, ret, baseFile, targetFile, skipKeys, limitQueue, activeCount>>

\* between two processes somebody edits a base file
EditBase(f, b) ==
    /\ proc = "exited"
    /\ hist.runs < MaxRuns
    /\ hist.edits < MaxEdits
    /\ b # baseFile[f]
    /\ baseFile' = [baseFile EXCEPT ![f] = b]
    /\ hist' = [hist EXCEPT !.edits = hist.edits + 1, !.changed = TRUE]
    /\ UNCHANGED <<call, ret, snapshot, snapshotDirty, snapshotFile, cache, cacheDirty,
                   cacheFile, targetFile, skipKeys, force, proc, pl, limitQueue,
                   activeCount, failures, sent>>

\* between two processes somebody edits a target file
EditTarget(p, t) ==
    /\ proc = "exited"
    /\ hist.runs < MaxRuns
    /\ hist.edits < MaxEdits
    /\ t # targetFile[p]
    /\ targetFile' = [targetFile EXCEPT ![p] = t]
    /\ hist' = [hist EXCEPT !.edits = hist.edits + 1, !.changed = TRUE]
    /\ UNCHANGED <<call, ret, snapshot, snapshotDirty, snapshotFile, cache, cacheDirty,
                   cacheFile, baseFile, skipKeys, force, proc, pl, limitQueue,
                   activeCount, failures, sent>>

\* one process from start to exit
Next ==
    \/ \E forceOption \in BOOLEAN : RunCli(forceOption)
    \/ \E p \in Pipelines : ReadBase(p)
    \/ \E p \in Pipelines : ReadTarget(p)
    \/ StartBatch
    \/ \E p \in Pipelines : \E i \in 1..Len(pl[p].batches) : FinishBatch(p, i)
    \/ \E p \in Pipelines : HandleResults(p)
    \/ \E p \in Pipelines : ContinueTranslateFile(p)
    \/ \E p \in Pipelines : \E ok \in BOOLEAN : WriteTarget(p, ok)
    \/ FinishTranslateAll

Spec == Init /\ [][Next]_vars

\* a directory of two new base files with a text in common, no target files,
\* no stores and no skip pattern
InitLive ==
    /\ baseFile = [f \in {File1, File2} |->
                     IF f = File1
                     THEN Content(Obj1(NameA, StrLeaf(Hello))
                                  \o Obj1(NameB, StrLeaf(Hello))
                                  \o Obj1(NameC, StrLeaf(Hi)))
                     ELSE Content(Obj1(NameA, StrLeaf(Hello)))]
    /\ targetFile = [p \in Pipelines |-> NoContent]
    /\ FreshStores
    /\ skipKeys = <<>>
    /\ snapshotFile = EmptySnapshotFile
    /\ cacheFile = EmptyCacheFile

\* translateFile's continuation after an await is ready to run
ReadyAt(p, pc) == proc = "running" /\ pl[p].pc = pc

\* the steps of the process are taken: each is the continuation of an await
\* (a file read or write, a request that answers or times out) or a function
\* the limiter starts, and the event loop runs every continuation that is ready.
\* For ReadTarget and ContinueTranslateFile weak fairness is written out, with
\* ENABLED <<A>>_vars replaced by the guard it equals
Fairness ==
    /\ WF_vars(\E forceOption \in BOOLEAN : RunCli(forceOption))
    /\ WF_vars(StartBatch)
    /\ WF_vars(FinishTranslateAll)
    /\ \A p \in {<<File1, FR>>, <<File2, FR>>} :
          /\ WF_vars(ReadBase(p))
          /\ \/ []<>(~ReadyAt(p, "readTarget"))
             \/ []<><<ReadTarget(p)>>_vars
          /\ WF_vars(\E i \in 1..Len(pl[p].batches) : FinishBatch(p, i))
          /\ WF_vars(HandleResults(p))
          /\ \/ []<>(~ReadyAt(p, "translated"))
             \/ []<><<ContinueTranslateFile(p)>>_vars
          /\ WF_vars(\E ok \in BOOLEAN : WriteTarget(p, ok))

SpecLive == InitLive /\ [][Next]_vars /\ Fairness

-----------------------------------------------------------------------------
(* SpecRuns: processes run one after the other over a directory with one
   base file, which somebody may edit between two of them *)

\* the base files the successive processes start from and are edited to
RunsBaseFiles ==
    {NoContent} \cup
    {Content(t) : t \in
        {<<>>,
         Obj1(NameA, StrLeaf(Hello)),
         Obj1(NameA, StrLeaf(Hi)),
         Obj1(NameA, StrLeaf(Hello)) \o Obj1(NameB, StrLeaf(Hello)),
         Obj1(NameA, ObjNode(Obj1(NameB, StrLeaf(Hello))))}}

InitRuns ==
    /\ \E b \in RunsBaseFiles : baseFile = [f \in {File1} |-> b]
    /\ \E t \in TargetFiles : targetFile = [p \in Pipelines |-> t]
    /\ FreshStores

\* the cli is started again after a process has exited
RunCliAgain(forceOption) ==
    /\ proc = "exited"
    /\ hist.runs < MaxRuns
    /\ StartProcess(forceOption)

NextRuns ==
    \/ Next
    \/ \E forceOption \in BOOLEAN : RunCliAgain(forceOption)
    \/ \E b \in RunsBaseFiles : EditBase(File1, b)
    \/ \E p \in Pipelines : \E t \in TargetFiles : EditTarget(p, t)

SpecRuns == InitRuns /\ [][NextRuns]_vars

-----------------------------------------------------------------------------
(* Claims about one process (Spec) *)

\* the pipelines whose translateFile call has computed its diff
Diffed == {p \in Pipelines : pl[p].pc \in {"awaitBatches", "translated", "write", "done"}
                             /\ pl[p].baseContent.ok}

\* the pipelines whose translateFile call has returned success
Succeeded == {p \in Pipelines : pl[p].pc = "done" /\ pl[p].success}

PipelineBaseFlat(p) == flatten(pl[p].baseContent.tree)

C9_NoDeletedKeyInTarget ==
    \A p \in Succeeded :
        targetFile[p].ok =>
            KeySet(flatten(targetFile[p].tree)) \subseteq KeySet(PipelineBaseFlat(p))

\* C10: in one process no text is sent to the service more than once for the
\* same target language
C10_TextSentOnce ==
    \A x \in DOMAIN sent.texts : sent.texts[x] <= 1

-----------------------------------------------------------------------------
(* Claims about successive processes (SpecRuns) *)

\* a process that follows one which ended with every file and every
\* translation succeeding, with no file edited in between, not in force mode
SecondRunUnchanged ==
    /\ proc = "running"
    /\ hist.runs >= 1
    /\ hist.prevClean
    /\ ~hist.changed
    /\ ~force

C4_ChangedTextIsModified ==
    (proc = "running" /\ hist.runs >= 1 /\ hist.prevClean /\ ~force) =>
        \A p \in Diffed :
            LET f == p[1]
                before == IF hist.prevBase[f].ok THEN flatten(hist.prevBase[f].tree)
                          ELSE <<>>
                now == PipelineBaseFlat(p)
                target == IF pl[p].targetContent.ok
                          THEN flatten(pl[p].targetContent.tree) ELSE <<>>
            IN  \A k \in KeySet(now) \cap KeySet(before) \cap KeySet(target) :
                    (~isKeySkipped(k, skipKeys) /\ Get(before, k) # Get(now, k))
                        => SeqIncludes(pl[p].diff.modified, k)

\* such a key, with a target value that is neither the old nor the new text
C4_Witness ==
    /\ proc = "running" /\ hist.runs >= 1 /\ hist.prevClean /\ ~force
    /\ \E p \in Diffed :
          /\ hist.prevBase[p[1]].ok
          /\ pl[p].targetContent.ok
          /\ \E k \in KeySet(PipelineBaseFlat(p)) :
                /\ Has(flatten(hist.prevBase[p[1]].tree), k)
                /\ Has(flatten(pl[p].targetContent.tree), k)
                /\ Get(flatten(hist.prevBase[p[1]].tree), k) # Get(PipelineBaseFlat(p), k)
                /\ Get(flatten(pl[p].targetContent.tree), k) # Get(PipelineBaseFlat(p), k)
                /\ Get(flatten(pl[p].targetContent.tree), k)
                     # Get(flatten(hist.prevBase[p[1]].tree), k)
                /\ SeqIncludes(pl[p].diff.modified, k)

\* a process that follows a non-force process, with no file edited in between,
\* not in force mode
RetryRun ==
    /\ proc = "running"
    /\ hist.runs >= 1
    /\ ~hist.changed
    /\ ~hist.prevForce
    /\ ~force

\* C11: the run after one in which translations failed classifies every key
\* that failed as added or modified, and requests no key that did not fail
C11_FailedKeysRetried ==
    RetryRun =>
        /\ \A p \in Diffed :
              \A k \in KeySet(PipelineBaseFlat(p)) :
                  <<p[1], k>> \in hist.prevFailed =>
                      \/ SeqIncludes(pl[p].diff.added, k)
                      \/ SeqIncludes(pl[p].diff.modified, k)
        /\ sent.keys \subseteq hist.prevFailed

\* the second half of C11 alone
C11_OnlyFailedKeysRequested ==
    RetryRun => sent.keys \subseteq hist.prevFailed

-----------------------------------------------------------------------------
(* Claims about the snapshot store during one process (Spec) *)

\* the snapshot as the running process loaded it
SnapshotAtStart == loadSnapshot(snapshotFile)

\* the entry of a key in a snapshot: its hash, or nothing
SnapshotEntry(snap, p, k) ==
    IF HasSnapshotHash(snap, p[1], p[2], k)
    THEN <<getSnapshotHash(snap, p[1], p[2], k)>> ELSE <<>>

\* the keys of a file that have an entry now or had one when the process started
SnapshotKeysOf(p) ==
    LET k == SnapshotKey(p[1], p[2])
    IN  (IF k \in DOMAIN snapshot THEN DOMAIN snapshot[k] ELSE {})
        \cup (IF k \in DOMAIN SnapshotAtStart THEN DOMAIN SnapshotAtStart[k] ELSE {})

\* the keys of a file whose translation failed in this process
FailedKeys(p) ==
    {failures[i].key : i \in {j \in 1..Len(failures) : failures[j].filePath = p[1]}}

\* C12: while a process runs, a snapshot entry that was created or overwritten
\* belongs to a key classified unchanged or to a key with an obtained
\* translation; a key whose translation failed keeps its previous entry or none
C12_SnapshotOnlyReconciled ==
    proc = "running" =>
        \A p \in Pipelines :
            /\ \A k \in SnapshotKeysOf(p) :
                  (/\ SnapshotEntry(snapshot, p, k) # <<>>
                   /\ SnapshotEntry(snapshot, p, k) # SnapshotEntry(SnapshotAtStart, p, k))
                      => /\ p \in Diffed
                         /\ \/ SeqIncludes(pl[p].diff.unchanged, k)
                            \/ Has(pl[p].translations, k)
            /\ \A k \in FailedKeys(p) :
                  SnapshotEntry(snapshot, p, k) = SnapshotEntry(SnapshotAtStart, p, k)

\* one file's key failed and kept its previous entry, which is not the hash of
\* its present text, while a translated key got a new entry
C12_Witness ==
    /\ proc = "running"
    /\ \E p \in Pipelines : \E k \in FailedKeys(p) :
          /\ pl[p].pc = "done"
          /\ SnapshotEntry(snapshot, p, k) # <<>>
          /\ SnapshotEntry(snapshot, p, k) # <<md5(Get(PipelineBaseFlat(p), k))>>
    /\ \E p \in Pipelines : \E k \in KeySet(pl[p].translations) :
          /\ pl[p].pc = "done"
          /\ SnapshotEntry(SnapshotAtStart, p, k) = <<>>
          /\ SnapshotEntry(snapshot, p, k) = <<md5(Get(PipelineBaseFlat(p), k))>>

\* C13: when translateFile has returned success = false, no snapshot entry of
\* its file and language differs from what it was when the call began
C13_FailedCallLeavesSnapshot ==
    proc = "running" =>
        \A p \in Pipelines :
            (pl[p].pc = "done" /\ ~pl[p].success) =>
                \A k \in SnapshotKeysOf(p) :
                    SnapshotEntry(snapshot, p, k) = SnapshotEntry(SnapshotAtStart, p, k)

\* the unreadable-base half of C13 alone
C13_UnreadableBaseLeavesSnapshot ==
    proc = "running" =>
        \A p \in Pipelines :
            (pl[p].pc = "done" /\ ~pl[p].success /\ ~pl[p].baseContent.ok) =>
                \A k \in SnapshotKeysOf(p) :
                    SnapshotEntry(snapshot, p, k) = SnapshotEntry(SnapshotAtStart, p, k)

\* the record of an obtained translation is in the target file at its key's
\* path and in the saved snapshot with the hash of its source text
Reconciled(o) ==
    LET p == <<o.filePath, o.targetLang>>
    IN  /\ targetFile[p].ok
        /\ Has(flatten(targetFile[p].tree), o.key)
        /\ Get(flatten(targetFile[p].tree), o.key) = o.text
        /\ HasSnapshotHash(loadSnapshot(snapshotFile), o.filePath, o.targetLang, o.key)
        /\ getSnapshotHash(loadSnapshot(snapshotFile), o.filePath, o.targetLang, o.key)
             = md5(o.sourceText)

-----------------------------------------------------------------------------
(* Claims about force mode (Spec) *)

\* the keys of the translation tasks of a translateFile call
TaskKeys(p) == {pl[p].tasks[i].key : i \in 1..Len(pl[p].tasks)}

\* the base keys of a call that no skip pattern matches
UnskippedBaseKeys(p) == {k \in KeySet(PipelineBaseFlat(p)) : ~isKeySkipped(k, skipKeys)}

\* C15: in force mode the translation tasks of a file are exactly its
\* unskipped base keys, whatever the target file and the snapshot hold
C15_ForceTranslatesAll ==
    (proc = "running" /\ force) =>
        \A p \in Diffed : TaskKeys(p) = UnskippedBaseKeys(p)

\* a force-mode call made a task of a key that the target holds translated and
\* whose stored hash equals the hash of its source text
C15_Witness ==
    /\ proc = "running" /\ force
    /\ \E p \in Diffed : \E k \in TaskKeys(p) :
          /\ pl[p].targetContent.ok
          /\ Has(flatten(pl[p].targetContent.tree), k)
          /\ Get(flatten(pl[p].targetContent.tree), k) # Get(PipelineBaseFlat(p), k)
          /\ SnapshotEntry(SnapshotAtStart, p, k) = <<md5(Get(PipelineBaseFlat(p), k))>>
          /\ Len(pl[p].diff.skipped) > 0

\* a process has loaded its stores and no translateFile call has acted yet
JustLoaded == proc = "running" /\ \A p \in Pipelines : pl[p].pc = "readBase"

\* the cache file the process loaded had another version than CACHE_VERSION
VersionMismatch == cacheFile.ok /\ cacheFile.version # CACHE_VERSION

\* C16: a process started in force mode, or one that found a cache file of
\* another version, begins with a snapshot store that holds no entry
C16_SnapshotResetWholesale ==
    (JustLoaded /\ (force \/ VersionMismatch)) => snapshot = EmptyFn

\* the force-mode half of C16 alone
C16_ForceResetsSnapshot ==
    (JustLoaded /\ force) => snapshot = EmptyFn

\* the version-mismatch half of C16 alone
C16_MismatchResetsSnapshot ==
    (JustLoaded /\ ~force /\ VersionMismatch) => snapshot = EmptyFn

\* what does hold: in both cases the translation cache begins empty
C16_CacheReset ==
    (JustLoaded /\ (force \/ VersionMismatch)) => cache = EmptyFn

-----------------------------------------------------------------------------
(* CacheManager alone: get, set and clear on drawn texts (SpecCache) *)

\* source texts and languages, two of whose pairs give generateKey the same
\* input string "a:b:c"
CacheSources == {<<"a">>, <<"a", ":", "b">>}

CacheLangs == {<<"c">>, <<"b", ":", "c">>}

CacheTexts == {Bonjour, Salut, <<>>}

\* the variables CacheManager does not touch
cacheUnusedVars == <<snapshot, snapshotDirty, snapshotFile, cacheFile, baseFile,
                     targetFile, skipKeys, force, proc, pl, limitQueue, activeCount,
                     failures, sent>>

\* hist.stored is the record of the sets: for each (sourceText, targetLang)
\* pair the text of its last set, as long as no later set wrote the entry of
\* the same key and the cache was not cleared
InitCache ==
    /\ call = [fn |-> "new"]
    /\ ret = NoRet
    /\ cache = EmptyFn
    /\ cacheDirty = FALSE
    /\ hist = [stored |-> EmptyFn]
    /\ snapshot = EmptyFn
    /\ snapshotDirty = FALSE
    /\ snapshotFile = EmptyFn
    /\ cacheFile = EmptyFn
    /\ baseFile = EmptyFn
    /\ targetFile = EmptyFn
    /\ skipKeys = <<>>
    /\ force = FALSE
    /\ proc = "none"
    /\ pl = EmptyFn
    /\ limitQueue = <<>>
    /\ activeCount = 0
    /\ failures = <<>>
    /\ sent = <<>>

CacheManagerSet(sourceText, translatedText, targetLang) ==
    /\ call' = [fn |-> "set", sourceText |-> sourceText, targetLang |-> targetLang]
    /\ ret' = NoRet
    /\ cache' = cacheSet(cache, sourceText, translatedText, targetLang, ModelName)
    /\ cacheDirty' = TRUE
    /\ hist' = [stored |->
                  LET kept == {x \in DOMAIN hist.stored :
                                  generateKey(x[1], x[2])
                                      # generateKey(sourceText, targetLang)}
                  IN  [x \in kept \cup {<<sourceText, targetLang>>} |->
                          IF x = <<sourceText, targetLang>> THEN translatedText
                          ELSE hist.stored[x]]]
    /\ UNCHANGED cacheUnusedVars

CacheManagerGet(sourceText, targetLang) ==
    /\ call' = [fn |-> "get", sourceText |-> sourceText, targetLang |-> targetLang]
    /\ ret' = IF cacheHas(cache, sourceText, targetLang)
              THEN [done |-> TRUE, defined |-> TRUE,
                    val |-> cacheGet(cache, sourceText, targetLang)]
              ELSE [done |-> TRUE, defined |-> FALSE, val |-> <<>>]
    /\ UNCHANGED <<cache, cacheDirty, hist, cacheUnusedVars>>

CacheManagerClear ==
    /\ call' = [fn |-> "clear"]
    /\ ret' = NoRet
    /\ cache' = EmptyFn
    /\ cacheDirty' = TRUE
    /\ hist' = [stored |-> EmptyFn]
    /\ UNCHANGED cacheUnusedVars

NextCache ==
    \/ \E s \in CacheSources, t \in CacheTexts, l \in CacheLangs : CacheManagerSet(s, t, l)
    \/ \E s \in CacheSources, l \in CacheLangs : CacheManagerGet(s, l)
    \/ CacheManagerClear

SpecCache == InitCache /\ [][NextCache]_vars

\* the pair a get asked for
AskedPair == <<call.sourceText, call.targetLang>>

\* C17: a get returns a translation only from an entry whose sourceText is the
\* queried text, and then the text last set for the queried pair; and it
\* returns that text whenever the pair was set and its entry was neither
\* overwritten nor cleared since
C17_GetReturnsOwnTranslation ==
    (call.fn = "get" /\ ret.done) =>
        /\ ret.defined =>
              /\ cache[generateKey(call.sourceText, call.targetLang)].sourceText
                    = call.sourceText
              /\ AskedPair \in DOMAIN hist.stored
              /\ ret.val = hist.stored[AskedPair]
        /\ AskedPair \in DOMAIN hist.stored =>
              /\ ret.defined
              /\ ret.val = hist.stored[AskedPair]

\* a get found nothing for a pair although the entry of its key holds a
\* translation, stored for the other pair with the same key
C17_Witness ==
    /\ call.fn = "get" /\ ret.done /\ ~ret.defined
    /\ generateKey(call.sourceText, call.targetLang) \in DOMAIN cache
    /\ \E x \in DOMAIN hist.stored :
          /\ x # AskedPair
          /\ generateKey(x[1], x[2]) = generateKey(call.sourceText, call.targetLang)

\* a get returned a text that a set stored for its pair
C17_WitnessHit ==
    /\ call.fn = "get" /\ ret.done /\ ret.defined
    /\ ret.val = Salut

-----------------------------------------------------------------------------
(* batchTasksByTokenLimit on drawn task lists and ceilings (SpecBatch) *)

MaxTasks == 3

MaxCeiling == 6

\* tasks whose estimates are 2, 3 and 5 tokens; one source text is Chinese
BatchTasks ==
    {[key |-> NameA, sourceText |-> Hi, targetLang |-> FR, filePath |-> File1],
     [key |-> NameB, sourceText |-> <<"zhong", "wen">>, targetLang |-> FR,
      filePath |-> File1],
     [key |-> NameAB, sourceText |-> Hello \o Hello \o Hello, targetLang |-> FR,
      filePath |-> File1]}

BatchTaskLists == UNION {[1..n -> BatchTasks] : n \in 0..MaxTasks}

InitBatch ==
    /\ \E ts \in BatchTaskLists, m \in 0..MaxCeiling :
          call = [fn |-> "batchTasksByTokenLimit", tasks |-> ts, maxTokens |-> m]
    /\ ret = NoRet
    /\ snapshot = EmptyFn
    /\ PipelineUnused

ApplyBatchTasksByTokenLimit ==
    /\ call.fn = "batchTasksByTokenLimit"
    /\ ~ret.done
    /\ ret' = [done |-> TRUE, val |-> batchTasksByTokenLimit(call.tasks, call.maxTokens)]
    /\ UNCHANGED <<call, snapshot, pipelineVars>>

NextBatch == ApplyBatchTasksByTokenLimit

SpecBatch == InitBatch /\ [][NextBatch]_vars

BatchDone == call.fn = "batchTasksByTokenLimit" /\ ret.done

\* the batches of a list of batches, one after the other
RECURSIVE Concat(_)
Concat(batches) == IF batches = <<>> THEN <<>> ELSE batches[1] \o Concat(Tail(batches))

\* the sum of the token estimates of a batch
RECURSIVE BatchTokens(_)
BatchTokens(batch) ==
    IF batch = <<>> THEN 0 ELSE taskTokens(batch[1]) + BatchTokens(Tail(batch))

\* C18: the batches, concatenated in order, are the task list; no batch is
\* empty; a batch of several tasks has a summed estimate within the ceiling;
\* a task whose own estimate exceeds the ceiling is alone in its batch; and two
\* tasks that do not fit the ceiling together come back as two batches of one
C18_BatchesPartitionTasks ==
    BatchDone =>
        /\ Concat(ret.val) = call.tasks
        /\ \A b \in 1..Len(ret.val) :
              /\ ret.val[b] # <<>>
              /\ Len(ret.val[b]) > 1 => BatchTokens(ret.val[b]) <= call.maxTokens
              /\ \A j \in 1..Len(ret.val[b]) :
                    taskTokens(ret.val[b][j]) > call.maxTokens => Len(ret.val[b]) = 1
        /\ (Len(call.tasks) = 2 /\ BatchTokens(call.tasks) > call.maxTokens)
              => ret.val = << <<call.tasks[1]>>, <<call.tasks[2]>> >>

\* three tasks came back as a batch of two within the ceiling and a batch of
\* one task that exceeds it
C18_Witness ==
    /\ BatchDone
    /\ Len(call.tasks) = 3
    /\ Len(ret.val) = 2
    /\ \E b \in 1..2 : Len(ret.val[b]) = 2
    /\ \E b \in 1..2 : Len(ret.val[b]) = 1 /\ taskTokens(ret.val[b][1]) > call.maxTokens

-----------------------------------------------------------------------------
(* Claims about the shared limiter (Spec) *)

\* the translateBatch calls started and not finished, over all files
InFlight ==
    UNION {{<<p, i>> : i \in {j \in 1..Len(pl[p].batchState) :
                                  pl[p].batchState[j] = "inflight"}} : p \in Pipelines}

\* C19: at every moment the number of batch requests in flight, over all
\* files of the process, is at most the configured concurrency
C19_BoundedConcurrency ==
    /\ Cardinality(InFlight) <= Concurrency
    /\ proc = "running" => activeCount = Cardinality(InFlight)

\* as many requests are in flight as the limiter allows, they belong to two
\* files, and a further batch waits in the limiter's queue
C19_Witness ==
    /\ Cardinality(InFlight) = Concurrency
    /\ limitQueue # <<>>
    /\ \E x, y \in InFlight : x[1] # y[1]

-----------------------------------------------------------------------------
(* LLMClient.translate: the retry loop of one request (SpecTranslate) *)

\* the largest config.retries drawn
MaxRetries == 3

\* the failures a request can end with. kind says what went wrong; api says
\* whether the error object is an OpenAI.APIError, status is its HTTP status
\* (0 for none), name and message are the Error's fields. When the request's
\* own timer aborts it, the error the library raises is either a plain
\* AbortError or an APIError without status: both are drawn.
RequestErrors ==
    {[kind |-> "rateLimit", api |-> TRUE, status |-> 429, name |-> "Error",
      message |-> <<>>],
     [kind |-> "server", api |-> TRUE, status |-> 500, name |-> "Error",
      message |-> <<>>],
     [kind |-> "server", api |-> TRUE, status |-> 502, name |-> "Error",
      message |-> <<>>],
     [kind |-> "server", api |-> TRUE, status |-> 503, name |-> "Error",
      message |-> <<>>],
     [kind |-> "timeout", api |-> FALSE, status |-> 0, name |-> "Error",
      message |-> <<"t", "i", "m", "e", "o", "u", "t">>],
     [kind |-> "abort", api |-> FALSE, status |-> 0, name |-> "AbortError",
      message |-> <<>>],
     [kind |-> "abort", api |-> TRUE, status |-> 0, name |-> "Error",
      message |-> <<"R", "e", "q", "u", "e", "s", "t", " ", "w", "a", "s", " ">>
                  \o <<"a", "b", "o", "r", "t", "e", "d">>],
     [kind |-> "auth", api |-> TRUE, status |-> 401, name |-> "Error",
      message |-> <<>>],
     [kind |-> "empty", api |-> FALSE, status |-> 0, name |-> "Error",
      message |-> <<"e", "m", "p", "t", "y">>]}

\* a gate that lets every failure be retried
isRetryableAlways(error) == TRUE

\* LLMClient.isRetryableError
isRetryableError(error) ==
    IF error.api THEN error.status = 429 \/ error.status = 500 \/ error.status = 503
    ELSE \/ error.name = "AbortError"
         \/ Includes(error.message, <<"t", "i", "m", "e", "o", "u", "t">>)
         \/ Includes(error.message, <<"a", "b", "o", "r", "t", "e", "d">>)

\* Math.pow(2, attempt)
RECURSIVE pow2(_)
pow2(n) == IF n = 0 THEN 1 ELSE 2 * pow2(n - 1)

\* the delay before the retry that follows attempt number `attempt`
retryDelay(attempt) == pow2(attempt) * 1000

\* hist holds the loop: the loop variable attempt, the position (request sent,
\* sleeping, returned, thrown), the errors caught and the delays slept so far
InitTranslate ==
    /\ \E r \in 0..MaxRetries : call = [fn |-> "translate", retries |-> r]
    /\ ret = IF call.retries > 0 THEN NoRet ELSE [done |-> TRUE, ok |-> FALSE]
    /\ hist = [attempt |-> 0, pc |-> IF call.retries > 0 THEN "request" ELSE "thrown",
               errors |-> <<>>, slept |-> <<>>]
    /\ snapshot = EmptyFn
    /\ snapshotDirty = FALSE
    /\ snapshotFile = EmptyFn
    /\ cache = EmptyFn
    /\ cacheDirty = FALSE
    /\ cacheFile = EmptyFn
    /\ baseFile = EmptyFn
    /\ targetFile = EmptyFn
    /\ skipKeys = <<>>
    /\ force = FALSE
    /\ proc = "none"
    /\ pl = EmptyFn
    /\ limitQueue = <<>>
    /\ activeCount = 0
    /\ failures = <<>>
    /\ sent = <<>>

translateUnusedVars == <<call, snapshot, snapshotDirty, snapshotFile, cache, cacheDirty,
                         cacheFile, baseFile, targetFile, skipKeys, force, proc, pl,
                         limitQueue, activeCount, failures, sent>>

\* String.prototype.trim on a text of characters: blanks and line breaks at
\* both ends go
RECURSIVE trimText(_)
trimText(text) ==
    IF text = <<>> THEN <<>>
    ELSE IF text[1] \in {" ", "\n"} THEN trimText(Tail(text))
    ELSE IF text[Len(text)] \in {" ", "\n"} THEN trimText(SubSeq(text, 1, Len(text) - 1))
    ELSE text

\* the contents a response can carry that pass the test `!content`: a text, a
\* text with blanks around it, only a blank
RequestContents == {Hi, <<" ">> \o Hi \o <<"\n">>, <<" ">>}

\* the request of one attempt answers with content: translate returns it trimmed
RequestReturns(content) ==
    /\ call.fn = "translate"
    /\ hist.pc = "request"
    /\ hist' = [hist EXCEPT !.pc = "returned"]
    /\ ret' = [done |-> TRUE, ok |-> TRUE, val |-> trimText(content)]
    /\ UNCHANGED translateUnusedVars

\* the request of one attempt fails: the catch block either goes to sleep
\* before the next attempt or leaves the loop, and then translate throws
RequestFails(error) ==
    /\ call.fn = "translate"
    /\ hist.pc = "request"
    /\ IF isRetryableError(error) /\ hist.attempt < call.retries - 1
       THEN /\ hist' = [hist EXCEPT !.errors = Append(hist.errors, error),
                                    !.pc = "sleep"]
            /\ ret' = ret
       ELSE /\ hist' = [hist EXCEPT !.errors = Append(hist.errors, error),
                                    !.pc = "thrown"]
            /\ ret' = [done |-> TRUE, ok |-> FALSE]
    /\ UNCHANGED translateUnusedVars

\* the sleep ends and the loop goes to its next attempt
SleepEnds ==
    /\ call.fn = "translate"
    /\ hist.pc = "sleep"
    /\ hist' = [hist EXCEPT !.slept = Append(hist.slept, retryDelay(hist.attempt)),
                            !.attempt = hist.attempt + 1,
                            !.pc = "request"]
    /\ UNCHANGED <<ret, translateUnusedVars>>

NextTranslate ==
    \/ \E content \in RequestContents : RequestReturns(content)
    \/ \E error \in RequestErrors : RequestFails(error)
    \/ SleepEnds

SpecTranslate == InitTranslate /\ [][NextTranslate]_vars

\* the failures the claim calls retryable: rate limit, server error, timeout
\* or abort
ClaimedRetryable(error) == error.kind \in {"rateLimit", "server", "timeout", "abort"}

\* the attempts started so far
Attempts == IF call.retries = 0 THEN 0 ELSE hist.attempt + 1

\* the delays slept so far are 1000, 2000, 4000, ...: 1000 * 2^n after attempt n
BackoffDoubles ==
    /\ \A n \in 1..Len(hist.slept) : hist.slept[n] = 1000 * pow2(n - 1)
    /\ Len(hist.slept) = hist.attempt
    /\ \A n \in 2..Len(hist.slept) : hist.slept[n] = 2 * hist.slept[n - 1]

\* C20: translate gives up after a rate limit, a server error, a timeout or an
\* abort only when the configured number of attempts is used up, and it has
\* slept 1000 * 2^n milliseconds after each failed attempt n before the next
C20_RetriesUntilUsedUp ==
    /\ BackoffDoubles
    /\ (hist.pc = "thrown" /\ hist.errors # <<>>
           /\ ClaimedRetryable(hist.errors[Len(hist.errors)]))
          => Attempts = call.retries

\* C20 for the failures isRetryableError accepts
C20_RetriesWhatTheCodeAccepts ==
    /\ BackoffDoubles
    /\ Attempts <= call.retries
    /\ (hist.pc = "thrown" /\ hist.errors # <<>>
           /\ isRetryableError(hist.errors[Len(hist.errors)]))
          => Attempts = call.retries

\* the failures nobody calls retryable: a rejected request, empty content
NotRetryable(error) == error.kind \in {"auth", "empty"}

\* C21 as stated: translate gives up after a non-retryable failure only when
\* the configured number of attempts is used up, as after a retryable one
C21_NonRetryableUsesAllAttempts ==
    (hist.pc = "thrown" /\ hist.errors # <<>>
       /\ NotRetryable(hist.errors[Len(hist.errors)]))
      => Attempts = call.retries

\* C21 as the loop behaves: a non-retryable failure is the last attempt of the
\* request; translate throws after it without a sleep or a further attempt
C21_NonRetryableEndsRequest ==
    \A n \in 1..Len(hist.errors) :
        NotRetryable(hist.errors[n]) =>
            /\ n = Len(hist.errors)
            /\ hist.pc = "thrown"
            /\ Len(hist.slept) = n - 1

\* translate threw on empty content at its second attempt of three, after
\* one retry
C21_Witness ==
    /\ hist.pc = "thrown"
    /\ call.retries = 3
    /\ Len(hist.errors) = 2
    /\ hist.errors[1].kind = "rateLimit"
    /\ hist.errors[2].kind = "empty"
    /\ Attempts = 2

-----------------------------------------------------------------------------
(* Claims about the results of a batch (Spec) *)

\* the batches of a call that translateBatch has answered
Answered(p) == {i \in 1..Len(pl[p].batches) : pl[p].batchState[i] = "done"}

\* the answered batches whose request failed for good
FailedForGood(p) ==
    {i \in Answered(p) :
        \E j \in 1..Len(pl[p].batchResults[i]) :
            pl[p].batchResults[i][j].error = "Translation failed"}

\* executeTranslations has gone through the results of the call
Handled(p) == pl[p].pc \in {"translated", "write", "done"} /\ pl[p].batches # <<>>

\* some task of some call with this source text got a successful result
TextTranslated(text) ==
    \E q \in Pipelines : \E i \in Answered(q) : \E j \in 1..Len(pl[q].batches[i]) :
        /\ pl[q].batches[i][j].sourceText = text
        /\ pl[q].batchResults[i][j].success

\* C22: a batch whose request failed for good has one failed result for each
\* of its tasks, all with the same error, and none of its tasks gets a
\* translation, a cache entry or a snapshot update
C22_FailedBatchFailsEveryTask ==
    proc = "running" =>
        \A p \in Pipelines : \A i \in FailedForGood(p) :
            LET batch == pl[p].batches[i]
                res   == pl[p].batchResults[i]
            IN  /\ Len(res) = Len(batch)
                /\ \A j \in 1..Len(batch) :
                      /\ res[j].key = batch[j].key
                      /\ ~res[j].success
                      /\ res[j].error = res[1].error
                      /\ res[j].translatedText = <<>>
                      /\ ~Has(pl[p].translations, batch[j].key)
                      /\ SnapshotEntry(snapshot, p, batch[j].key)
                           = SnapshotEntry(SnapshotAtStart, p, batch[j].key)
                      /\ cacheHas(cache, batch[j].sourceText, batch[j].targetLang)
                           => TextTranslated(batch[j].sourceText)
                      /\ Handled(p) => batch[j].key \in FailedKeys(p)

\* a file is through its merge with one batch of two tasks failed for good
\* and another batch translated
C22_Witness ==
    /\ proc = "running"
    /\ \E p \in Pipelines :
          /\ pl[p].pc = "done"
          /\ \E i \in FailedForGood(p) : Len(pl[p].batches[i]) = 2
          /\ \E i \in Answered(p) \ FailedForGood(p) :
                \E j \in 1..Len(pl[p].batchResults[i]) : pl[p].batchResults[i][j].success

-----------------------------------------------------------------------------
(* Claims about the life of a translation task (SpecLive) *)

\* the two translateFile calls of the process
AllPipelines == {<<File1, FR>>, <<File2, FR>>}

\* the places of a key in the batches of its call
BatchPlaces(p, k) ==
    {<<i, j>> \in (1..Len(pl[p].batches)) \X (1..Len(pl[p].tasks)) :
        j <= Len(pl[p].batches[i]) /\ pl[p].batches[i][j].key = k}

\* the state of the task of key k in call p. executeTranslations' cache loop
\* and its batching run without an await, so a task is seen first as resolved
\* from the cache or as batched; before that it is pending
TaskState(p, k) ==
    IF p \notin DOMAIN pl \/ k \notin TaskKeys(p) THEN "pending"
    ELSE IF Has(pl[p].translations, k) THEN "resolved"
    ELSE IF k \in FailedKeys(p) THEN "failed"
    ELSE IF BatchPlaces(p, k) # {} THEN "batched"
    ELSE "pending"

TaskNames == {NameA, NameB, NameC, NameA \o Dot \o NameB}

\* a task is in at most one batch, never both resolved and failed, and
\* resolved without a batch only from the cache
TaskStateConsistent ==
    proc = "running" =>
        \A p \in Pipelines : \A k \in TaskKeys(p) :
            /\ k \in TaskNames
            /\ Cardinality(BatchPlaces(p, k)) <= 1
            /\ ~(Has(pl[p].translations, k) /\ k \in FailedKeys(p))
            /\ TaskState(p, k) # "pending"
            /\ TaskState(p, k) = "failed" => BatchPlaces(p, k) # {}

\* the moves of a task within a process
TaskMoves ==
    (proc = "running" /\ proc' = "running") =>
        \A p \in AllPipelines : \A k \in TaskNames :
            \/ TaskState(p, k)' = TaskState(p, k)
            \/ TaskState(p, k) = "pending" /\ TaskState(p, k)' \in {"batched", "resolved"}
            \/ TaskState(p, k) = "batched" /\ TaskState(p, k)' \in {"resolved", "failed"}

\* every task of the call is resolved or failed
AllTerminal(p) ==
    /\ p \in DOMAIN pl
    /\ pl[p].pc \in {"translated", "write", "done"}
    /\ \A k \in TaskKeys(p) : TaskState(p, k) \in {"resolved", "failed"}

\* C23: a task goes from pending to resolved (cache hit), or from pending to
\* batched and from there to resolved or failed; it is in at most one batch,
\* never goes back and never leaves resolved or failed; and every task of a
\* call reaches resolved or failed within the run
C23_TaskLifecycle ==
    /\ []TaskStateConsistent
    /\ [][TaskMoves]_vars
    /\ \A p \in AllPipelines :
          (proc = "running" /\ pl[p].pc = "awaitBatches") ~> AllTerminal(p)

\* both calls have ended, with a task resolved from the cache, a task resolved
\* by a batch and a task failed
C23_Witness ==
    /\ proc = "running"
    /\ \A p \in Pipelines : AllTerminal(p)
    /\ \E p \in Pipelines : \E k \in TaskKeys(p) :
          TaskState(p, k) = "resolved" /\ BatchPlaces(p, k) = {}
    /\ \E p \in Pipelines : \E k \in TaskKeys(p) :
          TaskState(p, k) = "resolved" /\ BatchPlaces(p, k) # {}
    /\ \E p \in Pipelines : \E k \in TaskKeys(p) : TaskState(p, k) = "failed"

-----------------------------------------------------------------------------
(* LLMClient.parseBatchResponse on drawn responses (SpecParse)

   A response is a sequence of lexical pieces, each standing for the text
   Render gives: the parsing operators work on the pieces as the code's
   JSON.parse and regular expressions work on the text. *)

Piece(t, id, text) == [t |-> t, id |-> id, text |-> text]

\* {
LB == Piece("lb", <<>>, <<>>)

\* }
RB == Piece("rb", <<>>, <<>>)

\* ,
COMMA == Piece("comma", <<>>, <<>>)

\* "id": "text"
Pair(id, text) == Piece("pair", id, text)

\* "id": in front of a nested object
Key(id) == Piece("key", id, <<>>)

\* a word of prose
WORD == Piece("word", <<>>, <<"O", "k">>)

\* a code fence of three backquotes (rendered with ' for the backquote, which
\* a TLA+ string cannot hold)
FENCE == Piece("fence", <<>>, <<>>)

\* a line break
NL == Piece("nl", <<>>, <<>>)

T1 == <<"T", "1">>

T2 == <<"T", "2">>

\* the text a piece stands for
RenderPiece(x) ==
    CASE x.t = "lb" -> <<"{">>
      [] x.t = "rb" -> <<"}">>
      [] x.t = "comma" -> <<",">>
      [] x.t = "pair" -> <<"\"">> \o x.id \o <<"\"", ":", " ", "\"">> \o x.text \o <<"\"">>
      [] x.t = "key" -> <<"\"">> \o x.id \o <<"\"", ":">>
      [] x.t = "word" -> x.text
      [] x.t = "fence" -> <<"'", "'", "'">>
      [] x.t = "nl" -> <<"\n">>

RECURSIVE Render(_)
Render(pieces) ==
    IF pieces = <<>> THEN <<>> ELSE RenderPiece(pieces[1]) \o Render(Tail(pieces))

\* String.prototype.trim: line breaks at both ends go
RECURSIVE trim(_)
trim(pieces) ==
    IF pieces = <<>> THEN <<>>
    ELSE IF pieces[1] = NL THEN trim(Tail(pieces))
    ELSE IF pieces[Len(pieces)] = NL THEN trim(SubSeq(pieces, 1, Len(pieces) - 1))
    ELSE pieces

\* JSON.parse of an object, by recursive descent: jsonObject reads from {,
\* jsonMember reads one member, jsonAfterMember reads , or }. Each gives
\* whether it succeeded, the object read and the pieces left
RECURSIVE jsonObject(_), jsonMember(_, _), jsonAfterMember(_, _)
jsonObject(pieces) ==
    IF pieces = <<>> \/ pieces[1] # LB THEN [ok |-> FALSE, obj |-> <<>>, rest |-> <<>>]
    ELSE IF Len(pieces) >= 2 /\ pieces[2] = RB
    THEN [ok |-> TRUE, obj |-> <<>>, rest |-> SubSeq(pieces, 3, Len(pieces))]
    ELSE jsonMember(Tail(pieces), <<>>)

jsonMember(pieces, acc) ==
    IF pieces = <<>> THEN [ok |-> FALSE, obj |-> <<>>, rest |-> <<>>]
    ELSE IF pieces[1].t = "pair"
    THEN jsonAfterMember(Tail(pieces), Put(acc, pieces[1].id, StrLeaf(pieces[1].text)))
    ELSE IF pieces[1].t = "key"
    THEN LET inner == jsonObject(Tail(pieces))
         IN  IF inner.ok
             THEN jsonAfterMember(inner.rest, Put(acc, pieces[1].id, ObjNode(inner.obj)))
             ELSE [ok |-> FALSE, obj |-> <<>>, rest |-> <<>>]
    ELSE [ok |-> FALSE, obj |-> <<>>, rest |-> <<>>]

jsonAfterMember(pieces, acc) ==
    IF pieces = <<>> THEN [ok |-> FALSE, obj |-> <<>>, rest |-> <<>>]
    ELSE IF pieces[1] = RB THEN [ok |-> TRUE, obj |-> acc, rest |-> Tail(pieces)]
    ELSE IF pieces[1] = COMMA THEN jsonMember(Tail(pieces), acc)
    ELSE [ok |-> FALSE, obj |-> <<>>, rest |-> <<>>]

\* JSON.parse(text): white space between the tokens does not count, and
\* nothing may follow the object
jsonParse(pieces) ==
    LET read == jsonObject(SelectSeq(pieces, LAMBDA x : x # NL))
    IN  [ok |-> read.ok /\ read.rest = <<>>, obj |-> read.obj]

\* /T\d+/ for the ids in use
isTaskId(id) ==
    /\ Len(id) >= 2
    /\ id[1] = "T"
    /\ \A n \in 2..Len(id) : id[n] \in {"0", "1", "2", "3", "4", "5", "6", "7", "8", "9"}

\* the loop over lineRegex: every "T<n>": "<string>" of the text, a later
\* match of an id replacing an earlier one
RECURSIVE regexScan(_, _)
regexScan(pieces, obj) ==
    IF pieces = <<>> THEN obj
    ELSE regexScan(Tail(pieces),
                   IF pieces[1].t = "pair" /\ isTaskId(pieces[1].id)
                   THEN Put(obj, pieces[1].id, StrLeaf(pieces[1].text))
                   ELSE obj)

\* trimmed.match(/\{[\s\S]*\}/): from the first { to the last }
jsonMatch(trimmed) ==
    LET opens  == {n \in 1..Len(trimmed) : trimmed[n] = LB}
        first  == CHOOSE n \in opens : \A m \in opens : n <= m
        closes == {n \in 1..Len(trimmed) : trimmed[n] = RB /\ n > first}
        last   == CHOOSE n \in closes : \A m \in closes : m <= n
    IN  IF opens = {} \/ closes = {} THEN [found |-> FALSE, text |-> <<>>]
        ELSE [found |-> TRUE, text |-> SubSeq(trimmed, first, last)]

\* extractJsonFromResponse: null, or the object and (for the record) the way
\* that gave it
extractJsonFromResponse(response) ==
    LET trimmed == trim(response)
        match   == jsonMatch(trimmed)
        strict  == jsonParse(match.text)
        scanned == regexScan(trimmed, <<>>)
    IN  IF ~match.found THEN [found |-> FALSE, obj |-> <<>>, via |-> "none"]
        ELSE IF strict.ok THEN [found |-> TRUE, obj |-> strict.obj, via |-> "strict"]
        ELSE IF scanned # <<>> THEN [found |-> TRUE, obj |-> scanned, via |-> "regex"]
        ELSE [found |-> FALSE, obj |-> <<>>, via |-> "none"]

\* ids that count the tasks from zero
idOfFromZero(n) == <<"T">> \o <<CHOOSE d \in {"0", "1", "2", "3", "4"} :
                                  d = <<"0", "1", "2", "3", "4">>[n]>>

\* buildBatchPrompt's id of the n-th task: `T${i + 1}`
idOf(n) == <<"T">> \o <<CHOOSE d \in {"1", "2", "3", "4", "5"} :
                          d = <<"1", "2", "3", "4", "5">>[n]>>

\* buildBatchPrompt's idMap, in insertion order
idMap(tasks) == [n \in 1..Len(tasks) |-> [key |-> idOf(n), val |-> tasks[n].key]]

\* parseBatchResponse's reverseMap, a copy of idMap
reverseMapHas(tasks, id) == \E n \in 1..Len(tasks) : idOf(n) = id

reverseMapGet(tasks, id) == tasks[CHOOSE n \in 1..Len(tasks) : idOf(n) = id].key

\* parseBatchResponse's loop over Object.entries(parsed)
RECURSIVE entriesToResultMap(_, _, _)
entriesToResultMap(entries, tasks, resultMap) ==
    IF entries = <<>> THEN resultMap
    ELSE entriesToResultMap(
             Tail(entries), tasks,
             IF reverseMapHas(tasks, entries[1].key) /\ entries[1].val.kind = "str"
             THEN Put(resultMap, reverseMapGet(tasks, entries[1].key), entries[1].val.text)
             ELSE resultMap)

\* response.trim().replace(/^```[\s\S]*?\n/, '').replace(/\n```\s*$/, '').trim()
stripFences(response) ==
    LET trimmed == trim(response)
        breaks  == {n \in 1..Len(trimmed) : trimmed[n] = NL}
        first   == CHOOSE n \in breaks : \A m \in breaks : n <= m
        opened  == IF trimmed # <<>> /\ trimmed[1] = FENCE /\ breaks # {}
                   THEN SubSeq(trimmed, first + 1, Len(trimmed)) ELSE trimmed
        closed  == IF Len(opened) >= 2 /\ opened[Len(opened)] = FENCE
                      /\ opened[Len(opened) - 1] = NL
                   THEN SubSeq(opened, 1, Len(opened) - 2) ELSE opened
    IN  trim(closed)

\* parseBatchResponse's single-task fallback to the raw response
rawFallback(response, tasks, resultMap) ==
    LET cleaned == Render(stripFences(response))
    IN  IF Len(resultMap) < Len(tasks) /\ Len(tasks) = 1
        THEN IF cleaned # <<>> /\ ~Has(resultMap, tasks[1].key)
             THEN Put(resultMap, tasks[1].key, cleaned) ELSE resultMap
        ELSE resultMap

\* a result loop that takes an empty string for a translation
resultOfTaskAcceptsEmpty(task, resultMap) ==
    IF Has(resultMap, task.key) THEN okResult(task, Get(resultMap, task.key))
    ELSE failResult(task, "Translation not found in response")

\* parseBatchResponse's result for one task
resultOfTask(task, resultMap) ==
    IF Has(resultMap, task.key) /\ Get(resultMap, task.key) # <<>>
    THEN okResult(task, Get(resultMap, task.key))
    ELSE failResult(task, "Translation not found in response")

\* the parsed entries parseBatchResponse keeps
parsedResultMap(response, tasks) ==
    LET parsed == extractJsonFromResponse(response)
    IN  IF parsed.found THEN entriesToResultMap(parsed.obj, tasks, <<>>) ELSE <<>>

parseBatchResponse(response, tasks) ==
    LET resultMap == rawFallback(response, tasks, parsedResultMap(response, tasks))
    IN  [n \in 1..Len(tasks) |-> resultOfTask(tasks[n], resultMap)]

\* the longest run of pieces drawn inside a response
MaxInner == 3

InnerPieces == {Pair(T1, Bonjour), Pair(T2, Salut), Pair(T1, <<>>), Pair(NameA, Bonjour),
                COMMA, WORD}

Inners == UNION {[1..n -> InnerPieces] : n \in 0..MaxInner}

\* a run of pieces bare, in braces, in a nested object, and in an unclosed brace
Bodies ==
    UNION {{x, <<LB>> \o x \o <<RB>>, <<LB, Key(<<"d">>), LB>> \o x \o <<RB, RB>>,
            <<LB>> \o x} : x \in Inners}

Prefixes == {<<>>, <<WORD, NL>>, <<FENCE, NL>>}

Suffixes == {<<>>, <<NL, WORD>>, <<NL, FENCE, NL>>}

Responses == {pre \o body \o suf : pre \in Prefixes, body \in Bodies, suf \in Suffixes}

ParseTasks ==
    {<<[key |-> NameA, sourceText |-> Hello, targetLang |-> FR, filePath |-> File1]>>,
     <<[key |-> NameA, sourceText |-> Hello, targetLang |-> FR, filePath |-> File1],
       [key |-> NameB, sourceText |-> Hi, targetLang |-> FR, filePath |-> File1]>>}

InitParse ==
    /\ \E r \in Responses, ts \in ParseTasks :
          call = [fn |-> "parseBatchResponse", response |-> r, tasks |-> ts]
    /\ ret = NoRet
    /\ snapshot = EmptyFn
    /\ PipelineUnused

ApplyParseBatchResponse ==
    /\ call.fn = "parseBatchResponse"
    /\ ~ret.done
    /\ ret' = [done |-> TRUE, val |-> parseBatchResponse(call.response, call.tasks)]
    /\ UNCHANGED <<call, snapshot, pipelineVars>>

NextParse == ApplyParseBatchResponse

SpecParse == InitParse /\ [][NextParse]_vars

-----------------------------------------------------------------------------
(* Claims about response parsing (SpecParse) *)

Parsed == call.fn = "parseBatchResponse" /\ ret.done

\* the ids of the batch an object holds with a string value
BatchIdsIn(obj, tasks) ==
    {n \in 1..Len(tasks) : Has(obj, idOf(n)) /\ Get(obj, idOf(n)).kind = "str"}

StrictParse(response) == jsonParse(jsonMatch(trim(response)).text)

\* the strict parse did not give an object holding an id of the batch
StrictGaveNoId(response, tasks) ==
    \/ ~StrictParse(response).ok
    \/ BatchIdsIn(StrictParse(response).obj, tasks) = {}

\* the results parseBatchResponse gives from this mapping of ids
ResultsFrom(obj, response, tasks) ==
    LET resultMap == rawFallback(response, tasks, entriesToResultMap(obj, tasks, <<>>))
    IN  [n \in 1..Len(tasks) |-> resultOfTask(tasks[n], resultMap)]

\* C24 as stated: the JSON-object substring is parsed strictly first, and
\* whenever that parse fails or its object holds no id of the batch, the
\* results are those of the regex scan for "T<n>": "<string>" pairs.
C24_RegexScanWhenNoBatchId ==
    (Parsed /\ jsonMatch(trim(call.response)).found
            /\ StrictGaveNoId(call.response, call.tasks))
    => ret.val = ResultsFrom(regexScan(trim(call.response), <<>>),
                             call.response, call.tasks)

\* C24, the part the code keeps: when the strict parse fails, the results are
\* those of the regex scan; when it succeeds, those of the parsed object.
C24_RegexScanWhenParseFails ==
    (Parsed /\ jsonMatch(trim(call.response)).found)
    => ret.val = ResultsFrom(IF StrictParse(call.response).ok
                             THEN StrictParse(call.response).obj
                             ELSE regexScan(trim(call.response), <<>>),
                             call.response, call.tasks)

\* a response whose object parses, holds no id of the batch at its top, and
\* holds one inside, has been parsed for a batch of two
C24_Witness ==
    /\ Parsed
    /\ Len(call.tasks) = 2
    /\ StrictParse(call.response).ok
    /\ BatchIdsIn(StrictParse(call.response).obj, call.tasks) = {}
    /\ BatchIdsIn(regexScan(trim(call.response), <<>>), call.tasks) # {}

\* the raw response, trimmed and without its code fence, is task n's translation
RawUsed(n) ==
    /\ ret.val[n].success
    /\ ret.val[n].translatedText = Render(stripFences(call.response))

\* C25 as stated: the raw response is a task's translation only when the batch
\* has exactly one task and neither the strict parse nor the regex scan found
\* an id of the batch; in a batch of two or more it is never a translation.
C25_RawOnlyWhenNothingMatched ==
    Parsed =>
        \A n \in 1..Len(call.tasks) :
            RawUsed(n) =>
                /\ Len(call.tasks) = 1
                /\ StrictParse(call.response).ok
                       => BatchIdsIn(StrictParse(call.response).obj, call.tasks) = {}
                /\ BatchIdsIn(regexScan(trim(call.response), <<>>), call.tasks) = {}

\* C25, the part the code keeps: the raw response is a translation only in a
\* batch of one for which parseBatchResponse's own mapping is empty.
C25_RawOnlyForSingleUnmatched ==
    Parsed =>
        \A n \in 1..Len(call.tasks) :
            RawUsed(n) =>
                /\ Len(call.tasks) = 1
                /\ parsedResultMap(call.response, call.tasks) = <<>>

\* the value the recovered object holds for task n: a string or nothing
Recovered(n) ==
    LET obj == extractJsonFromResponse(call.response).obj
    IN  IF n \in BatchIdsIn(obj, call.tasks)
        THEN [found |-> TRUE, text |-> Get(obj, idOf(n)).text]
        ELSE [found |-> FALSE, text |-> <<>>]

\* the raw response stands in for the missing id of a batch of one
RawStandsIn(n) ==
    /\ Len(call.tasks) = 1
    /\ ~Recovered(n).found
    /\ Render(stripFences(call.response)) # <<>>

\* C26: in a parsed response, a task whose id the recovered mapping lacks or
\* maps to the empty string is failed with 'Translation not found in
\* response'; every other task of the batch succeeds with its own string,
\* whatever happens to its neighbours.
C26_MissingOrEmptyFailsAlone ==
    Parsed =>
        \A n \in 1..Len(call.tasks) :
            ret.val[n] =
                IF Recovered(n).found /\ Recovered(n).text # <<>>
                THEN okResult(call.tasks[n], Recovered(n).text)
                ELSE IF RawStandsIn(n)
                THEN okResult(call.tasks[n], Render(stripFences(call.response)))
                ELSE failResult(call.tasks[n], "Translation not found in response")

\* a batch of two was parsed: one task has its string, the other's is empty
C26_Witness ==
    /\ Parsed
    /\ Len(call.tasks) = 2
    /\ Recovered(1).found /\ Recovered(1).text = <<>>
    /\ ~ret.val[1].success /\ ret.val[1].error = "Translation not found in response"
    /\ ret.val[2] = okResult(call.tasks[2], Salut)

\* a batch of two was parsed: one task has its string, the other's id is missing
C26_WitnessMissing ==
    /\ Parsed
    /\ Len(call.tasks) = 2
    /\ ret.val[1] = okResult(call.tasks[1], Bonjour)
    /\ ~Recovered(2).found
    /\ ~ret.val[2].success /\ ret.val[2].error = "Translation not found in response"

-----------------------------------------------------------------------------
(* FileWatcher: change events, the debounce timer and processPendingChanges
   (SpecWatch). call holds the watcher: pendingChanges, debounceTimer, the
   passes of processPendingChanges that have started and not returned, the
   number of change events so far and the path of the last one, and two
   counts: how often a path was taken from pendingChanges into a pass, and
   how often translateFile was called for a path and a language. *)

\* the most change events of one run
MaxEvents == 3

DE == <<"d", "e">>

\* a watched path that does not end in .json
NotJson == <<"n", ".", "t", "s">>

WatchPaths == {File1, File2, NotJson}

\* config.targetLangs
WatchLangs == <<FR, DE>>

endsWithJson(filePath) == filePath # NotJson

\* translateFile wraps its whole body in try/catch and returns the result
\* object: its promise never rejects
translateFileThrows == {FALSE}

\* one more translateFile call for the file and language a pass stands at
callMade(calls, pass) ==
    IF pass.pc = "translateFile"
    THEN [calls EXCEPT ![<<pass.changes[pass.file], pass.lang>>] = @ + 1]
    ELSE calls

\* Array.from(pendingChanges): insertion order
InitWatch ==
    /\ call = [fn |-> "watch", running |-> TRUE, pendingChanges |-> <<>>,
               debounceTimer |-> "none", passes |-> <<>>, events |-> 0,
               lastEvent |-> <<>>,
               taken |-> [f \in {File1, File2} |-> 0],
               calls |-> [x \in {File1, File2} \X (1..Len(WatchLangs)) |-> 0]]
    /\ ret = NoRet
    /\ snapshot = EmptyFn
    /\ PipelineUnused

watchUnusedVars == <<ret, snapshot, pipelineVars>>

\* handleChange: a chokidar add, change or unlink event
handleChange(filePath) ==
    /\ call.fn = "watch"
    /\ call.running
    /\ call.events < MaxEvents
    /\ call' = IF ~endsWithJson(filePath)
               THEN [call EXCEPT !.events = @ + 1, !.lastEvent = filePath]
               ELSE [call EXCEPT !.events = @ + 1, !.lastEvent = filePath,
                                 !.pendingChanges =
                                     IF \E n \in 1..Len(@) : @[n] = filePath
                                     THEN @ ELSE Append(@, filePath),
                                 !.debounceTimer = "armed"]
    /\ UNCHANGED watchUnusedVars

\* the debounce timer fires and calls processPendingChanges, which runs up
\* to its first await: the translateFile of the first file and language
processPendingChanges ==
    /\ call.fn = "watch"
    /\ call.running
    /\ call.debounceTimer = "armed"
    /\ call' = IF call.pendingChanges = <<>>
               THEN [call EXCEPT !.debounceTimer = "fired"]
               ELSE LET pass == [changes |-> call.pendingChanges, file |-> 1,
                                 lang |-> 1, pc |-> "translateFile"]
                    IN  [call EXCEPT !.debounceTimer = "fired",
                                     !.pendingChanges = <<>>,
                                     !.passes = Append(@, pass),
                                     !.taken = [f \in DOMAIN @ |->
                                                  IF f \in Range(call.pendingChanges)
                                                  THEN @[f] + 1 ELSE @[f]],
                                     !.calls = callMade(@, pass)]
    /\ UNCHANGED watchUnusedVars

\* a pass that goes to the next file after the first language of a file
afterTranslateFileOneLang(pass, threw) ==
    IF pass.file < Len(pass.changes)
    THEN [pass EXCEPT !.file = @ + 1, !.lang = 1]
    ELSE [pass EXCEPT !.pc = "saveCache"]

\* the pass after the translateFile it awaits: the next language of the file,
\* or (also when the call threw) the next file, or saveCache
afterTranslateFile(pass, threw) ==
    IF ~threw /\ pass.lang < Len(WatchLangs)
    THEN [pass EXCEPT !.lang = @ + 1]
    ELSE IF pass.file < Len(pass.changes)
    THEN [pass EXCEPT !.file = @ + 1, !.lang = 1]
    ELSE [pass EXCEPT !.pc = "saveCache"]

\* the translateFile a pass awaits returns or throws
TranslateFileEnds(n, threw) ==
    /\ call.fn = "watch"
    /\ call.running
    /\ n \in 1..Len(call.passes)
    /\ call.passes[n].pc = "translateFile"
    /\ call' = [call EXCEPT !.passes[n] = afterTranslateFile(@, threw),
                            !.calls = callMade(@, afterTranslateFile(call.passes[n],
                                                                     threw))]
    /\ UNCHANGED watchUnusedVars

\* the saveCache a pass awaits returns: the pass is over
SaveCacheEnds(n) ==
    /\ call.fn = "watch"
    /\ call.running
    /\ n \in 1..Len(call.passes)
    /\ call.passes[n].pc = "saveCache"
    /\ call' = [call EXCEPT !.passes =
                   [m \in 1..(Len(@) - 1) |-> IF m < n THEN @[m] ELSE @[m + 1]]]
    /\ UNCHANGED watchUnusedVars

\* stop, on SIGINT or SIGTERM: the timer is cleared and the process exits
WatcherStop ==
    /\ call.fn = "watch"
    /\ call.running
    /\ call' = [call EXCEPT !.running = FALSE, !.debounceTimer = "none", !.passes = <<>>]
    /\ UNCHANGED watchUnusedVars

NextWatch ==
    \/ \E filePath \in WatchPaths : handleChange(filePath)
    \/ processPendingChanges
    \/ \E n \in 1..MaxEvents, threw \in translateFileThrows : TranslateFileEnds(n, threw)
    \/ \E n \in 1..MaxEvents : SaveCacheEnds(n)
    \/ WatcherStop

SpecWatch == InitWatch /\ [][NextWatch]_vars

-----------------------------------------------------------------------------
(* Claims about watch mode (SpecWatch) *)

\* C27 as stated: at most one pass of processPendingChanges is under way at
\* any time; a change that arrives during a pass is taken up only after the
\* pass has finished.
C27_OnePassAtATime ==
    call.fn = "watch" => Len(call.passes) <= 1

\* what holds of a pass: it starts only from a fired timer, takes every
\* pending path and leaves none pending
C27_PassTakesPendingChanges ==
    [][(call.fn = "watch" /\ call.running /\ call'.running
            /\ Len(call'.passes) > Len(call.passes))
       => /\ call.debounceTimer = "armed"
          /\ call'.passes[Len(call'.passes)].changes = call.pendingChanges
          /\ call'.pendingChanges = <<>>]_vars

\* two passes translate the same file at the same time
C27_Overlap ==
    /\ call.fn = "watch"
    /\ Len(call.passes) = 2
    /\ call.passes[1].pc = "translateFile" /\ call.passes[2].pc = "translateFile"
    /\ call.passes[1].changes[call.passes[1].file]
           = call.passes[2].changes[call.passes[2].file]

-----------------------------------------------------------------------------
(* Claims about failures at and below the file level (Spec) *)

\* translateFile of p has gone past the read of its base file
BaseWasRead(p) == proc = "running" /\ pl[p].pc \notin {"idle", "readBase"}

\* C28, for the file itself: a translateFile call whose base file cannot be
\* read or parsed returns (it does not throw) success=false with the error
\* of the read; it has then asked for nothing and written nothing.
C28_UnreadableBaseFailsTheFile ==
    \A p \in Pipelines :
        (BaseWasRead(p) /\ ~baseFile[p[1]].ok)
        => /\ pl[p].pc = "done"
           /\ ~pl[p].success
           /\ pl[p].error = "Failed to read base file"
           /\ pl[p].tasks = <<>>

\* C28, for the other files: a call whose own base file is readable never
\* ends with the error of the read, and fails only if its own write failed.
C28_OthersKeepTheirOwnResult ==
    \A q \in Pipelines :
        (BaseWasRead(q) /\ baseFile[q[1]].ok /\ pl[q].pc = "done" /\ ~pl[q].success)
        => pl[q].error = "write failed"

\* C28, for the process: it ends only after every call has returned, and its
\* exit status is non-zero exactly when some call returned success=false.
C28_ExitStatusCountsFailedFiles ==
    (proc = "running" /\ proc' = "exited")
    => /\ \A p \in Pipelines : pl[p].pc = "done"
       /\ (hist'.exitCode # 0) <=> (failedFiles > 0)
       /\ (\E p \in Pipelines : ~baseFile[p[1]].ok) => hist'.exitCode # 0

FailedTasks(p) ==
    UNION {{pl[p].batches[i][j] :
               j \in {n \in 1..Len(pl[p].batchResults[i]) :
                         ~pl[p].batchResults[i][n].success}} :
           i \in Answered(p)}

\* the entries of the failure record for a task
LedgerEntries(task) ==
    {n \in 1..Len(failures) :
        /\ failures[n].filePath = task.filePath
        /\ failures[n].targetLang = task.targetLang
        /\ failures[n].key = task.key}

\* C29: failures of keys do not fail the file. Once executeTranslations has
\* gone through a call's results, each failed task has exactly one entry in
\* the failure record and the record holds no entry for any other task of the
\* call; the call still merges and writes, and returns success=true with the
\* merged tree on disk unless the write itself failed, the failed keys
\* carrying no translation; calls for other files are not touched by it.
C29_KeyFailuresDoNotFailTheFile ==
    proc = "running" =>
        \A p \in Pipelines :
            /\ Handled(p) =>
                  /\ \A task \in FailedTasks(p) : Cardinality(LedgerEntries(task)) = 1
                  /\ \A n \in 1..Len(failures) :
                        failures[n].filePath = p[1]
                        => \E task \in FailedTasks(p) : n \in LedgerEntries(task)
                  /\ \A task \in FailedTasks(p) : ~Has(pl[p].translations, task.key)
            /\ (pl[p].pc = "done" /\ pl[p].baseContent.ok)
                  => /\ pl[p].success <=> pl[p].error # "write failed"
                     /\ pl[p].success
                           => \/ targetFile[p] = Content(pl[p].mergedContent)
                              \/ pl[p].tasks = <<>>
            /\ ~Handled(p) /\ pl[p].pc # "done" => FailedKeys(p) = {}

\* every key of the first file failed and the file was written with
\* success=true, while the second file was translated and written
C29_Witness ==
    /\ proc = "running"
    /\ \A p \in Pipelines : pl[p].pc = "done"
    /\ Len(pl[<<File1, FR>>].tasks) >= 2
    /\ Cardinality(FailedTasks(<<File1, FR>>)) = Len(pl[<<File1, FR>>].tasks)
    /\ pl[<<File1, FR>>].success
    /\ targetFile[<<File1, FR>>] = Content(pl[<<File1, FR>>].mergedContent)
    /\ Len(failures) = Len(pl[<<File1, FR>>].tasks)
    /\ pl[<<File2, FR>>].success
    /\ pl[<<File2, FR>>].translations # <<>>

\* some keys of a file failed and others were translated, and the file was
\* written with success=true
C29_WitnessSome ==
    /\ proc = "running"
    /\ \E p \in Pipelines :
          /\ pl[p].pc = "done" /\ pl[p].success
          /\ FailedTasks(p) # {}
          /\ pl[p].translations # <<>>
          /\ targetFile[p] = Content(pl[p].mergedContent)

-----------------------------------------------------------------------------
(* flatten and unflatten in a round trip on drawn trees (SpecRound) *)

EmptyName == <<>>

\* nested objects: empty, with strings in both orders, with a deeper object,
\* with an empty object
RoundInner ==
    {<<>>,
     Obj1(NameA, StrLeaf(Hello)),
     Obj1(NameB, StrLeaf(Hello)) \o Obj1(NameA, StrLeaf(Hi)),
     Obj1(NameA, StrLeaf(Hello)) \o Obj1(NameB, ObjNode(Obj1(NameB, StrLeaf(Hi)))),
     Obj1(NameB, ObjNode(<<>>))}

\* trees of string leaves and plain objects only; among the names a dotted
\* one and the empty one
RoundTrees ==
    ObjectsOf({NameA, NameB, NameAB, EmptyName},
              {StrLeaf(Hello)} \cup {ObjNode(o) : o \in RoundInner})

InitRound ==
    /\ \E t \in RoundTrees : call = [fn |-> "roundTrip", tree |-> t]
    /\ ret = NoRet
    /\ snapshot = EmptyFn
    /\ PipelineUnused

ApplyFlatten ==
    /\ call.fn = "roundTrip"
    /\ ~ret.done
    /\ "flat" \notin DOMAIN call
    /\ call' = [fn |-> "roundTrip", tree |-> call.tree, flat |-> flatten(call.tree)]
    /\ UNCHANGED <<ret, snapshot, pipelineVars>>

ApplyUnflatten ==
    /\ call.fn = "roundTrip"
    /\ ~ret.done
    /\ "flat" \in DOMAIN call
    /\ ret' = [done |-> TRUE, val |-> unflatten(call.flat)]
    /\ UNCHANGED <<call, snapshot, pipelineVars>>

NextRound == ApplyFlatten \/ ApplyUnflatten

SpecRound == InitRound /\ [][NextRound]_vars

-----------------------------------------------------------------------------
(* Claims about the round trip (SpecRound) *)

RoundTripDone == call.fn = "roundTrip" /\ ret.done

\* no key of the tree, at any depth, is empty or holds a dot
RECURSIVE PlainKeys(_)
PlainKeys(obj) ==
    \A i \in 1..Len(obj) :
        /\ obj[i].key # <<>>
        /\ IndexOf(obj[i].key, Dot) = 0
        /\ obj[i].val.kind = "obj" => PlainKeys(obj[i].val.kids)

\* no object nested in the tree is empty
RECURSIVE NoEmptyObject(_)
NoEmptyObject(obj) ==
    \A i \in 1..Len(obj) :
        obj[i].val.kind = "obj"
        => obj[i].val.kids # <<>> /\ NoEmptyObject(obj[i].val.kids)

\* the same properties with the same values, in whatever order
RECURSIVE SameTree(_, _)
SameTree(x, y) ==
    /\ KeySet(x) = KeySet(y)
    /\ Len(x) = Len(y)
    /\ \A k \in KeySet(x) :
          /\ Get(x, k).kind = Get(y, k).kind
          /\ Get(x, k).text = Get(y, k).text
          /\ Get(x, k).kind = "obj" => SameTree(Get(x, k).kids, Get(y, k).kids)

\* C30 as stated: for every tree of string leaves and nested plain objects,
\* unflatten(flatten(T)) equals T.
C30_RoundTripEveryTree ==
    RoundTripDone => SameTree(ret.val, call.tree)

\* C30 for the trees that come back: when no key is empty or holds a dot and
\* no nested object is empty, unflatten(flatten(T)) is T, property order
\* included.
C30_RoundTripPlainTree ==
    (RoundTripDone /\ PlainKeys(call.tree) /\ NoEmptyObject(call.tree))
    => ret.val = call.tree

\* a tree with a string, a nested object and an object nested in that has
\* made the round trip
C30_Witness ==
    /\ RoundTripDone
    /\ PlainKeys(call.tree) /\ NoEmptyObject(call.tree)
    /\ \E i, j \in 1..Len(call.tree) :
          /\ call.tree[i].val.kind = "str"
          /\ call.tree[j].val.kind = "obj"
          /\ Len(call.tree[j].val.kids) = 2
          /\ \E n \in 1..2 : call.tree[j].val.kids[n].val.kind = "obj"
    /\ Len(call.flat) = 3

\* a tree with a dotted key, and a tree with an empty object, come back changed
C30_WitnessDotted ==
    /\ RoundTripDone
    /\ NoEmptyObject(call.tree)
    /\ call.tree = Obj1(NameAB, StrLeaf(Hello))
    /\ ret.val = Obj1(NameA, ObjNode(Obj1(NameB, StrLeaf(Hello))))

C30_WitnessEmptyObject ==
    /\ RoundTripDone
    /\ call.tree = Obj1(NameA, ObjNode(<<>>))
    /\ ret.val = <<>>

-----------------------------------------------------------------------------
(* CacheManager and the snapshot store with their files (SpecStore): load,
   get, set, clear, cleanExpired and save in any order, save in the steps its
   awaits cut it into. hist holds the saves under way and the record of what
   happened: the number of calls, the writes of the cache file, whether the
   store was mutated since the last save that succeeded, and whether the last
   load of each store found a file it could not use with no set since. *)

\* the most calls of one run
MaxOps == 5

StoreSources == {Hello, Hi}

\* a file that is there but is not JSON
UnparsableCacheFile == [ok |-> FALSE, version |-> <<"?">>, entries |-> EmptyFn]

UnparsableSnapshotFile == [ok |-> FALSE, data |-> [x \in {<<"?">>} |-> EmptyFn]]

\* the cache file on disk: missing, unparsable, of an earlier version, current
StoreCacheFiles ==
    {EmptyCacheFile, UnparsableCacheFile,
     [ok |-> TRUE, version |-> OLD_CACHE_VERSION,
      entries |-> cacheSet(EmptyFn, Hello, Salut, FR, ModelName)],
     [ok |-> TRUE, version |-> CACHE_VERSION,
      entries |-> cacheSet(EmptyFn, Hello, Bonjour, FR, ModelName)]}

StoreSnapshotFiles ==
    {EmptySnapshotFile, UnparsableSnapshotFile,
     [ok |-> TRUE, data |-> updateSnapshot(EmptyFn, File1, FR, NameA, Hello)]}

\* the file is one load cannot use
BadCacheFile(file) == ~file.ok \/ file.version # CACHE_VERSION

InitStore ==
    /\ call = [fn |-> "new"]
    /\ ret = NoRet
    /\ cache = EmptyFn
    /\ cacheDirty = FALSE
    /\ cacheFile \in StoreCacheFiles
    /\ snapshot = EmptyFn
    /\ snapshotDirty = FALSE
    /\ snapshotFile \in StoreSnapshotFiles
    /\ hist = [ops |-> 0, saves |-> <<>>, writes |-> 0, mutated |-> FALSE,
               cacheReset |-> FALSE, snapshotReset |-> FALSE]
    /\ baseFile = EmptyFn
    /\ targetFile = EmptyFn
    /\ skipKeys = <<>>
    /\ force = FALSE
    /\ proc = "none"
    /\ pl = EmptyFn
    /\ limitQueue = <<>>
    /\ activeCount = 0
    /\ failures = <<>>
    /\ sent = <<>>

storeUnusedVars == <<baseFile, targetFile, skipKeys, force, proc, pl, limitQueue,
                     activeCount, failures, sent>>

\* CacheManager.load: every failure is caught
StoreLoad ==
    /\ hist.ops < MaxOps
    /\ call' = [fn |-> "load"]
    /\ ret' = [done |-> TRUE, threw |-> FALSE]
    /\ cache' = cacheLoad(cacheFile)
    /\ hist' = [hist EXCEPT !.ops = @ + 1, !.cacheReset = BadCacheFile(cacheFile)]
    /\ UNCHANGED <<cacheDirty, cacheFile, snapshot, snapshotDirty, snapshotFile,
                   storeUnusedVars>>

\* loadSnapshot: every failure is caught
StoreLoadSnapshot ==
    /\ hist.ops < MaxOps
    /\ call' = [fn |-> "loadSnapshot"]
    /\ ret' = [done |-> TRUE, threw |-> FALSE]
    /\ snapshot' = loadSnapshot(snapshotFile)
    /\ hist' = [hist EXCEPT !.ops = @ + 1, !.snapshotReset = ~snapshotFile.ok]
    /\ UNCHANGED <<cache, cacheDirty, cacheFile, snapshotDirty, snapshotFile,
                   storeUnusedVars>>

StoreGet(sourceText) ==
    /\ hist.ops < MaxOps
    /\ call' = [fn |-> "get", sourceText |-> sourceText]
    /\ ret' = IF cacheHas(cache, sourceText, FR)
              THEN [done |-> TRUE, defined |-> TRUE,
                    val |-> cacheGet(cache, sourceText, FR)]
              ELSE [done |-> TRUE, defined |-> FALSE, val |-> <<>>]
    /\ hist' = [hist EXCEPT !.ops = @ + 1]
    /\ UNCHANGED <<cache, cacheDirty, cacheFile, snapshot, snapshotDirty, snapshotFile,
                   storeUnusedVars>>

StoreSet(sourceText) ==
    /\ hist.ops < MaxOps
    /\ call' = [fn |-> "set", sourceText |-> sourceText]
    /\ ret' = NoRet
    /\ cache' = cacheSet(cache, sourceText, Bonjour, FR, ModelName)
    /\ cacheDirty' = TRUE
    /\ hist' = [hist EXCEPT !.ops = @ + 1, !.mutated = TRUE, !.cacheReset = FALSE]
    /\ UNCHANGED <<cacheFile, snapshot, snapshotDirty, snapshotFile, storeUnusedVars>>

StoreClear ==
    /\ hist.ops < MaxOps
    /\ call' = [fn |-> "clear"]
    /\ ret' = NoRet
    /\ cache' = EmptyFn
    /\ cacheDirty' = TRUE
    /\ hist' = [hist EXCEPT !.ops = @ + 1, !.mutated = TRUE]
    /\ UNCHANGED <<cacheFile, snapshot, snapshotDirty, snapshotFile, storeUnusedVars>>

\* cleanExpired: the entries older than maxAge go; which ones are is for the
\* clock to say, so any set of entries may be the expired ones
StoreCleanExpired(expired) ==
    /\ hist.ops < MaxOps
    /\ expired \subseteq DOMAIN cache
    /\ call' = [fn |-> "cleanExpired"]
    /\ ret' = NoRet
    /\ cache' = FnDrop(cache, expired)
    /\ cacheDirty' = (cacheDirty \/ expired # {})
    /\ hist' = [hist EXCEPT !.ops = @ + 1, !.mutated = (@ \/ expired # {})]
    /\ UNCHANGED <<cacheFile, snapshot, snapshotDirty, snapshotFile, storeUnusedVars>>

\* getSnapshotHash for key a of the first file
StoreGetSnapshotHash ==
    /\ hist.ops < MaxOps
    /\ call' = [fn |-> "getSnapshotHash"]
    /\ ret' = IF HasSnapshotHash(snapshot, File1, FR, NameA)
              THEN [done |-> TRUE, defined |-> TRUE,
                    val |-> getSnapshotHash(snapshot, File1, FR, NameA)]
              ELSE [done |-> TRUE, defined |-> FALSE, val |-> <<>>]
    /\ hist' = [hist EXCEPT !.ops = @ + 1]
    /\ UNCHANGED <<cache, cacheDirty, cacheFile, snapshot, snapshotDirty, snapshotFile,
                   storeUnusedVars>>

StoreUpdateSnapshot ==
    /\ hist.ops < MaxOps
    /\ call' = [fn |-> "updateSnapshot"]
    /\ ret' = NoRet
    /\ snapshot' = updateSnapshot(snapshot, File1, FR, NameA, Hello)
    /\ snapshotDirty' = TRUE
    /\ hist' = [hist EXCEPT !.ops = @ + 1, !.snapshotReset = FALSE]
    /\ UNCHANGED <<cache, cacheDirty, cacheFile, snapshotFile, storeUnusedVars>>

\* save up to its first await: it returns at once when the flag is down
SaveBegins ==
    /\ hist.ops < MaxOps
    /\ call' = [fn |-> "save", writes |-> saveWrites(cacheDirty), mutated |-> hist.mutated]
    /\ ret' = NoRet
    /\ hist' = [hist EXCEPT !.ops = @ + 1,
                            !.saves = IF saveWrites(cacheDirty)
                                      THEN Append(@, "write") ELSE @]
    /\ UNCHANGED <<cache, cacheDirty, cacheFile, snapshot, snapshotDirty, snapshotFile,
                   storeUnusedVars>>

Without(seq, n) == [m \in 1..(Len(seq) - 1) |-> IF m < n THEN seq[m] ELSE seq[m + 1]]

\* mkdir and writeFile of a save: the store as it is now reaches the disk, or
\* the error is caught and the save is over with the flag as it was
SaveWrites(n, ok) ==
    /\ n \in 1..Len(hist.saves)
    /\ hist.saves[n] = "write"
    /\ call' = [fn |-> "writeFile", ok |-> ok]
    /\ ret' = NoRet
    /\ cacheFile' = IF ok THEN [ok |-> TRUE, version |-> CACHE_VERSION, entries |-> cache]
                    ELSE cacheFile
    /\ hist' = [hist EXCEPT !.saves = IF ok THEN [@ EXCEPT ![n] = "written"]
                                      ELSE Without(@, n),
                            !.writes = IF ok THEN @ + 1 ELSE @]
    /\ UNCHANGED <<cache, cacheDirty, snapshot, snapshotDirty, snapshotFile,
                   storeUnusedVars>>

\* the save after its write: the flag goes down
SaveEnds(n) ==
    /\ n \in 1..Len(hist.saves)
    /\ hist.saves[n] = "written"
    /\ call' = [fn |-> "saved"]
    /\ ret' = NoRet
    /\ cacheDirty' = FALSE
    /\ hist' = [hist EXCEPT !.saves = Without(@, n), !.mutated = FALSE]
    /\ UNCHANGED <<cache, cacheFile, snapshot, snapshotDirty, snapshotFile,
                   storeUnusedVars>>

NextStore ==
    \/ StoreLoad
    \/ StoreLoadSnapshot
    \/ \E sourceText \in StoreSources : StoreGet(sourceText)
    \/ \E sourceText \in StoreSources : StoreSet(sourceText)
    \/ StoreClear
    \/ \E expired \in SUBSET DOMAIN cache : StoreCleanExpired(expired)
    \/ StoreGetSnapshotHash
    \/ StoreUpdateSnapshot
    \/ SaveBegins
    \/ \E n \in 1..MaxOps, ok \in BOOLEAN : SaveWrites(n, ok)
    \/ \E n \in 1..MaxOps : SaveEnds(n)

SpecStore == InitStore /\ [][NextStore]_vars

-----------------------------------------------------------------------------
(* Claims about the stores and their files (SpecStore) *)

\* C31: save goes on to write exactly when the store was mutated (set, clear
\* or an expiry removal) since the last save that succeeded; with the flag
\* down it writes nothing; the cache file changes only in the write of a save
\* that found the flag up; and the end of a successful save puts the flag down.
C31_SaveWritesOnlyWhenMutated ==
    /\ [](call.fn = "save" => (call.writes <=> call.mutated))
    /\ [][/\ (call'.fn = "save" /\ ~call'.writes)
                => (cacheFile' = cacheFile /\ hist'.saves = hist.saves)
          /\ (cacheFile' # cacheFile \/ hist'.writes # hist.writes)
                => (call'.fn = "writeFile" /\ call'.ok /\ hist.saves # <<>>)
          /\ call'.fn = "saved" => ~cacheDirty'
          /\ (call'.fn = "writeFile" /\ ~call'.ok) => cacheDirty' = cacheDirty]_vars

\* a save wrote the store after a set, and a later save with nothing in
\* between wrote nothing
C31_Witness ==
    /\ call.fn = "save" /\ ~call.writes
    /\ hist.writes = 1
    /\ hist.saves = <<>>
    /\ cacheFile.ok /\ cacheFile.entries = cache /\ cache # EmptyFn
    /\ ~cacheDirty

\* C32: a load of a cache file that is missing, unparsable or of another
\* version, and a load of a snapshot file that is missing or unparsable,
\* returns without an error and leaves its store empty; every get from then
\* on misses until a set (an updateSnapshot) is made.
C32_BadFileLoadsEmpty ==
    /\ call.fn \in {"load", "loadSnapshot"} => ~ret.threw
    /\ (call.fn = "load" /\ hist.cacheReset) => cache = EmptyFn
    /\ (call.fn = "loadSnapshot" /\ hist.snapshotReset) => snapshot = EmptyFn
    /\ (call.fn = "get" /\ hist.cacheReset) => ~ret.defined
    /\ (call.fn = "getSnapshotHash" /\ hist.snapshotReset) => ~ret.defined

\* a cache file of an earlier version holding Hello was loaded, and a get of
\* Hello after it missed
C32_Witness ==
    /\ call.fn = "get" /\ call.sourceText = Hello
    /\ hist.cacheReset
    /\ cacheFile.ok /\ cacheFile.version = OLD_CACHE_VERSION
    /\ cacheHas(cacheFile.entries, Hello, FR)
    /\ ~ret.defined

\* the same for a cache file and a snapshot file that could not be parsed
C32_WitnessUnparsable ==
    /\ call.fn = "getSnapshotHash"
    /\ hist.cacheReset /\ hist.snapshotReset
    /\ cacheFile = UnparsableCacheFile /\ snapshotFile = UnparsableSnapshotFile
    /\ ~ret.defined

-----------------------------------------------------------------------------
(* Claims about when the stores are persisted (Spec, SpecWatch) *)

\* a step of a process that changes the cache file or the snapshot file
StoreFileChanges == cacheFile' # cacheFile \/ snapshotFile' # snapshotFile

\* the step is the end of translateAll: every call has returned, and each
\* store that was changed in memory is on disk as it is in memory
TranslateAllSaves ==
    /\ proc = "running" /\ proc' = "exited"
    /\ \A p \in Pipelines : pl[p].pc = "done"
    /\ cacheDirty => cacheFile' = [ok |-> TRUE, version |-> CACHE_VERSION, entries |-> cache]
    /\ snapshotDirty => snapshotFile' = [ok |-> TRUE, data |-> snapshot]

\* the step is the start of a process with --force: clearCache saves the
\* emptied cache before translateAll
ForceClearSaves ==
    /\ proc = "down" /\ proc' = "running" /\ force'
    /\ cacheFile'.entries = EmptyFn
    /\ snapshotFile' = snapshotFile

C33_WatchSavesOncePerPass ==
    /\ [](call.fn = "watch" =>
             \A n \in 1..Len(call.passes) :
                 call.passes[n].pc = "saveCache"
                 => call.passes[n].file = Len(call.passes[n].changes))
    /\ [][(call.running /\ call'.running /\ Len(call'.passes) < Len(call.passes))
             => \E n \in 1..Len(call.passes) :
                   /\ call.passes[n].pc = "saveCache"
                   /\ call'.passes = Without(call.passes, n)]_vars

-----------------------------------------------------------------------------
(* Claims about the ids of a batch (SpecParse) *)

\* the text T<n>
TaskIdText(n) == <<"T", <<"1", "2", "3", "4", "5">>[n]>>

\* the ids the response names
ResponseIds == {call.response[x].id : x \in 1..Len(call.response)}

\* C34: the id map holds T1..Tn for the n tasks in task order and is one to
\* one between those ids and the batch's keys; an id of the response that is
\* one of them is turned back into the key of the task that got it, so that
\* task n's translation is the string the response gives for T<n>; an id
\* outside T1..Tn belongs to no task.
C34_IdMapIsBijection ==
    Parsed =>
        LET tasks == call.tasks
            m     == idMap(tasks)
        IN  /\ Len(m) = Len(tasks)
            /\ \A n \in 1..Len(tasks) :
                  /\ m[n].key = TaskIdText(n)
                  /\ m[n].val = tasks[n].key
                  /\ Get(m, TaskIdText(n)) = tasks[n].key
                  /\ reverseMapHas(tasks, TaskIdText(n))
                  /\ reverseMapGet(tasks, TaskIdText(n)) = tasks[n].key
            /\ \A x, y \in 1..Len(m) :
                  x # y => (m[x].key # m[y].key /\ m[x].val # m[y].val)
            /\ \A id \in ResponseIds :
                  reverseMapHas(tasks, id)
                      <=> \E n \in 1..Len(tasks) : id = TaskIdText(n)
            /\ \A n \in 1..Len(tasks) :
                  (ret.val[n].success /\ ~RawUsed(n))
                  => /\ ret.val[n].key = tasks[n].key
                     /\ Has(extractJsonFromResponse(call.response).obj, TaskIdText(n))
                     /\ ret.val[n].translatedText
                           = Get(extractJsonFromResponse(call.response).obj,
                                 TaskIdText(n)).text

\* the response answered T2 before T1 and named T2 for a batch of one: in the
\* batch of two each task got its own string
C34_Witness ==
    /\ Parsed
    /\ Len(call.tasks) = 2
    /\ extractJsonFromResponse(call.response).found
    /\ Keys(extractJsonFromResponse(call.response).obj) = <<T2, T1>>
    /\ ret.val[1] = okResult(call.tasks[1], Bonjour)
    /\ ret.val[2] = okResult(call.tasks[2], Salut)

\* a response that names T2 was parsed for a batch of one task
C34_WitnessOutside ==
    /\ Parsed
    /\ Len(call.tasks) = 1
    /\ T2 \in ResponseIds
    /\ Has(extractJsonFromResponse(call.response).obj, T2)
    /\ ~reverseMapHas(call.tasks, T2)

-----------------------------------------------------------------------------
(* SpecSkip: isKeySkipped applied to a drawn key and one pattern P.** *)

MaxKeyLen == 3

\* key paths over two letters and the dot, also with empty segments
SkipKeyTexts == UNION {[1..n -> {"a", "b", "."}] : n \in 1..MaxKeyLen}

\* the P of the drawn pattern P.**: one segment, a longer segment, two segments
GlobPrefixes == {NameA, NameB, <<"a", "b">>, NameAB}

InitSkip ==
    /\ \E k \in SkipKeyTexts, prefix \in GlobPrefixes :
          call = [fn |-> "isKeySkipped", key |-> k, prefix |-> prefix,
                  patterns |-> <<prefix \o <<".", "*", "*">> >>]
    /\ snapshot = EmptyFn
    /\ ret = NoRet
    /\ PipelineUnused

ApplyIsKeySkipped ==
    /\ call.fn = "isKeySkipped"
    /\ ~ret.done
    /\ ret' = [done |-> TRUE, val |-> isKeySkipped(call.key, call.patterns)]
    /\ UNCHANGED <<call, snapshot, pipelineVars>>

NextSkip == ApplyIsKeySkipped

SpecSkip == InitSkip /\ [][NextSkip]_vars

-----------------------------------------------------------------------------
(* Claims about the pattern P.** (SpecSkip) *)

SkipAnswered == call.fn = "isKeySkipped" /\ ret.done

\* the key is P itself or lies below P: P followed by a dot and anything
AtOrBelow(key, prefix) == key = prefix \/ StartsWith(key, prefix \o Dot)

\* C35: the pattern P.** skips a key exactly when the key equals P or begins
\* with P followed by a dot; a key that only shares P as the beginning of a
\* longer first segment is not skipped
C35_GlobSkipsWholeSegmentsOnly ==
    SkipAnswered => (ret.val <=> AtOrBelow(call.key, call.prefix))

\* C35, the half the code keeps: P and every key below P are skipped
C35_GlobSkipsAtOrBelow ==
    SkipAnswered /\ AtOrBelow(call.key, call.prefix) => ret.val

\* C35, what the code computes: the key begins with the characters of P
C35_GlobSkipsCharacterPrefix ==
    SkipAnswered => (ret.val <=> StartsWith(call.key, call.prefix))

\* the key "ab" is skipped by the pattern "a.**"
C35_SkippedBySharedLetters ==
    /\ SkipAnswered
    /\ call.key = <<"a", "b">>
    /\ call.prefix = NameA
    /\ ret.val

-----------------------------------------------------------------------------
(* Claims about the end of one request (SpecTranslate) *)

TranslateEnded == call.fn = "translate" /\ hist.pc \in {"returned", "thrown"}

\* a failure the loop does not retry is the last thing the call did, and a
\* returned call made its last attempt when it returned
NothingAfterTheEnd ==
    /\ \A n \in 1..Len(hist.errors) :
          ~isRetryableError(hist.errors[n]) => n = Len(hist.errors) /\ hist.pc = "thrown"
    /\ hist.pc = "returned" => Attempts = Len(hist.errors) + 1
    /\ hist.pc = "thrown" => Attempts = Len(hist.errors)

\* the call has one outcome: it returned or it threw, and only once it ended
OneOutcome ==
    /\ ret.done <=> TranslateEnded
    /\ ret.done => (ret.ok <=> hist.pc = "returned")

\* what is left of the loop: attempts and sleeps still possible
TranslateMeasure ==
    IF TranslateEnded THEN 0
    ELSE 1 + 2 * (call.retries - Attempts) + (IF hist.pc = "request" THEN 1 ELSE 0)

C36_EndsWithinRetriesAttempts ==
    /\ Attempts <= call.retries
    /\ Len(hist.slept) = (IF Attempts = 0 THEN 0 ELSE Attempts - 1)
    /\ NothingAfterTheEnd
    /\ OneOutcome
    /\ (ret.done /\ ret.ok) => (Attempts >= 1 /\ trimText(ret.val) = ret.val)

\* C36, termination: every step of the loop brings its end nearer
C36_EveryStepNearerTheEnd ==
    [][TranslateMeasure' < TranslateMeasure]_vars

\* with retries = 0 translate threw without a request
C36_ThrewWithoutAttempt ==
    /\ TranslateEnded
    /\ call.retries = 0
    /\ Attempts = 0
    /\ hist.errors = <<>>

\* translate returned the empty text for a content of one blank
C36_ReturnedEmptyText ==
    /\ TranslateEnded
    /\ ret.done /\ ret.ok
    /\ ret.val = <<>>

-----------------------------------------------------------------------------
(* SpecTranslateBatch: translateBatch applied to drawn tasks and a drawn end
   of its request: translate returned a response or threw *)

\* translate threw, or returned one of the drawn responses
RequestEnds ==
    {[threw |-> TRUE, message |-> "Translation failed", response |-> <<>>]} \cup
    {[threw |-> FALSE, message |-> "", response |-> r] : r \in Responses}

\* a catch branch that answers for the first task only
failedBatchResultsFirst(tasks, message) == <<failResult(tasks[1], message)>>

\* translateBatch's catch branch: every task fails with the request's error
failedBatchResults(tasks, message) ==
    [n \in 1..Len(tasks) |-> failResult(tasks[n], message)]

translateBatch(tasks, requestEnd) ==
    IF tasks = <<>> THEN <<>>
    ELSE IF requestEnd.threw THEN failedBatchResults(tasks, requestEnd.message)
    ELSE parseBatchResponse(requestEnd.response, tasks)

InitTranslateBatch ==
    /\ \E ts \in ParseTasks \cup {<<>>}, e \in RequestEnds :
          call = [fn |-> "translateBatch", tasks |-> ts, requestEnd |-> e]
    /\ ret = NoRet
    /\ snapshot = EmptyFn
    /\ PipelineUnused

ApplyTranslateBatch ==
    /\ call.fn = "translateBatch"
    /\ ~ret.done
    /\ ret' = [done |-> TRUE, val |-> translateBatch(call.tasks, call.requestEnd)]
    /\ UNCHANGED <<call, snapshot, pipelineVars>>

NextTranslateBatch == ApplyTranslateBatch

SpecTranslateBatch == InitTranslateBatch /\ [][NextTranslateBatch]_vars

-----------------------------------------------------------------------------
(* Claims about the results of translateBatch (SpecTranslateBatch) *)

BatchReturned == call.fn = "translateBatch" /\ ret.done

\* C37: translateBatch returns one result per task, in task order, the i-th
\* with the key and target language of the i-th task, whether the request
\* failed or its response was complete, partial or unreadable; a result with
\* success = true holds a translatedText that is not empty
C37_OneResultPerTaskInOrder ==
    BatchReturned =>
        /\ Len(ret.val) = Len(call.tasks)
        /\ \A i \in 1..Len(call.tasks) :
              /\ ret.val[i].key = call.tasks[i].key
              /\ ret.val[i].targetLang = call.tasks[i].targetLang
              /\ ret.val[i].success => ret.val[i].translatedText # <<>>
              /\ ~ret.val[i].success => ret.val[i].translatedText = <<>>

\* a response that answers the second of two tasks only: the first result
\* fails, the second holds its translation
C37_Witness ==
    /\ BatchReturned
    /\ Len(call.tasks) = 2
    /\ ~call.requestEnd.threw
    /\ ~ret.val[1].success
    /\ ret.val[2].success /\ ret.val[2].translatedText = Salut

\* the request of a batch of two tasks failed: two failed results
C37_WitnessThrew ==
    /\ BatchReturned
    /\ Len(call.tasks) = 2
    /\ call.requestEnd.threw
    /\ Len(ret.val) = 2

\* a response without a readable object for two tasks: two failed results
C37_WitnessMalformed ==
    /\ BatchReturned
    /\ Len(call.tasks) = 2
    /\ ~call.requestEnd.threw
    /\ ~extractJsonFromResponse(call.requestEnd.response).found
    /\ call.requestEnd.response # <<>>
    /\ Len(ret.val) = 2

-----------------------------------------------------------------------------
(* Claims about what executeTranslations writes to the cache (Spec) *)

\* the keys of the tasks in the batches of a call
BatchKeys(p) ==
    UNION {{pl[p].batches[i][j].key : j \in 1..Len(pl[p].batches[i])} :
           i \in 1..Len(pl[p].batches)}

\* the keys of the tasks in the batches of a call that were started
StartedKeys(p) ==
    UNION {{pl[p].batches[i][j].key : j \in 1..Len(pl[p].batches[i])} :
           i \in {n \in 1..Len(pl[p].batches) : pl[p].batchState[n] # "queued"}}

\* the entry is what cacheManager.set stores for a successful result of the
\* call: the source text and language of the result's own task with the
\* returned text, which is not empty
SetBySuccessOf(p, key, entry) ==
    \E i \in 1..Len(pl[p].batches) : \E j \in 1..Len(pl[p].batchResults[i]) :
        LET res  == pl[p].batchResults[i][j]
            task == pl[p].batches[i][j]
        IN  /\ res.success
            /\ task.key = res.key
            /\ key = generateKey(task.sourceText, task.targetLang)
            /\ entry.sourceText = task.sourceText
            /\ entry.targetLang = task.targetLang
            /\ entry.translatedText = res.translatedText
            /\ res.translatedText # <<>>

\* while calls run, the cache changes only in the result loop of a call, and
\* every entry made or changed there comes from a successful result
CacheSetOnlyOnSuccess ==
    (proc = "running" /\ proc' = "running" /\ cache' # cache) =>
        /\ DOMAIN cache \subseteq DOMAIN cache'
        /\ \E p \in Pipelines :
              /\ pl[p].pc = "awaitBatches" /\ pl'[p].pc = "translated"
              /\ \A key \in DOMAIN cache' :
                    (key \notin DOMAIN cache \/ cache'[key] # cache[key])
                       => SetBySuccessOf(p, key, cache'[key])

\* the tasks the cache answered are in no batch, and only keys of started
\* batches were sent
CachedTasksNotSent ==
    /\ \A p \in Pipelines :
          pl[p].pc = "awaitBatches" =>
              /\ KeySet(pl[p].translations) \cap BatchKeys(p) = {}
              /\ KeySet(pl[p].translations) \cup BatchKeys(p)
                    = {pl[p].tasks[n].key : n \in 1..Len(pl[p].tasks)}
              /\ \A n \in 1..Len(pl[p].tasks) :
                    Has(pl[p].translations, pl[p].tasks[n].key) =>
                        Get(pl[p].translations, pl[p].tasks[n].key) # <<>>
    /\ proc = "running" =>
          \A x \in sent.keys : \E p \in Pipelines : p[1] = x[1] /\ x[2] \in StartedKeys(p)

\* C38: executeTranslations calls cacheManager.set only for results with
\* success = true, with the source text and target language of the result's
\* own task and the returned text, which is not empty; a failed task makes or
\* changes no entry; a task the cache answered is in no request
C38_CacheWrittenOnlyOnSuccess ==
    /\ []CachedTasksNotSent
    /\ [][CacheSetOnlyOnSuccess]_vars

\* a call ended its result loop with one task failed and one translated: the
\* cache holds the translated task's entry and none for the failed task's text
C38_Witness ==
    /\ proc = "running"
    /\ \E p \in Pipelines :
          /\ pl[p].pc = "translated"
          /\ \E f \in FailedTasks(p) :
                generateKey(f.sourceText, f.targetLang) \notin DOMAIN cache
          /\ \E i \in 1..Len(pl[p].batches) : \E j \in 1..Len(pl[p].batchResults[i]) :
                /\ pl[p].batchResults[i][j].success
                /\ SetBySuccessOf(p, generateKey(pl[p].batches[i][j].sourceText, FR),
                                  cache[generateKey(pl[p].batches[i][j].sourceText, FR)])

\* a call got one task from the cache and sent the other: one key in the
\* results before any answer, the other in a started batch
C38_WitnessCached ==
    /\ proc = "running"
    /\ \E p \in Pipelines :
          /\ pl[p].pc = "awaitBatches"
          /\ pl[p].translations # <<>>
          /\ StartedKeys(p) # {}

-----------------------------------------------------------------------------
(* Claims about a call that finds nothing to translate (Spec) *)

\* the call has computed its diff and found no added and no modified key
NothingToTranslate(p) ==
    /\ proc = "running"
    /\ pl[p].baseContent.ok
    /\ pl[p].pc \in {"write", "done"}
    /\ pl[p].diff.added = <<>>
    /\ pl[p].diff.modified = <<>>

\* no request was made for the call: it has no batch and no key of its file
\* was sent
NoRequestFor(p) ==
    /\ pl[p].batches = <<>>
    /\ pl[p].tasks = <<>>
    /\ \A x \in sent.keys : x[1] # p[1]

\* C39: a call whose diff has no added, modified or removed key makes no
\* request, leaves the target file as it found it (an absent file stays
\* absent) and returns success = true; with removed keys and nothing added or
\* modified it makes no request and writes the target file from the merge
C39_NothingToTranslate ==
    \A p \in Pipelines :
        NothingToTranslate(p) =>
            /\ NoRequestFor(p)
            /\ pl[p].diff.removed = <<>> =>
                  /\ pl[p].pc = "done"
                  /\ pl[p].success
                  /\ targetFile[p] = pl[p].targetContent
            /\ pl[p].diff.removed # <<>> =>
                  /\ pl[p].mergedContent =
                        mergeTranslations(pl[p].baseContent.tree, pl[p].targetContent,
                                          <<>>, pl[p].diff.skipped)
                  /\ pl[p].pc = "write" => targetFile[p] = pl[p].targetContent
                  /\ pl[p].pc = "done" =>
                        targetFile[p] = IF pl[p].success
                                        THEN Content(pl[p].mergedContent)
                                        ELSE pl[p].targetContent

\* every call has returned; the first file's held a target with all its keys
\* translated and returned with the file as it was and no request
C39_Witness ==
    /\ \A p \in Pipelines : pl[p].pc = "done"
    /\ NothingToTranslate(<<File1, FR>>)
    /\ pl[<<File1, FR>>].diff.removed = <<>>
    /\ pl[<<File1, FR>>].diff.unchanged # <<>>
    /\ pl[<<File1, FR>>].targetContent.ok
    /\ targetFile[<<File1, FR>>] = pl[<<File1, FR>>].targetContent

\* a call with nothing to translate and no target file returned without
\* creating the file
C39_WitnessNoFile ==
    /\ NothingToTranslate(<<File1, FR>>)
    /\ pl[<<File1, FR>>].pc = "done"
    /\ pl[<<File1, FR>>].diff.removed = <<>>
    /\ ~targetFile[<<File1, FR>>].ok

\* a call with removed keys only wrote the merged tree
C39_WitnessRemoved ==
    /\ NothingToTranslate(<<File1, FR>>)
    /\ pl[<<File1, FR>>].pc = "done"
    /\ pl[<<File1, FR>>].diff.removed # <<>>
    /\ pl[<<File1, FR>>].success
    /\ targetFile[<<File1, FR>>] = Content(pl[<<File1, FR>>].mergedContent)
    /\ targetFile[<<File1, FR>>] # pl[<<File1, FR>>].targetContent

-----------------------------------------------------------------------------
(* SpecWatchLive: the watcher under the scheduling of the event loop: an
   armed timer that is not restarted fires, an awaited translateFile settles
   (every request has its own timeout), an awaited saveCache returns. Change
   events and stop signals are under no obligation to happen. *)

WatchFairness ==
    /\ WF_vars(processPendingChanges)
    /\ \A n \in 1..MaxEvents :
          /\ WF_vars(\E threw \in translateFileThrows : TranslateFileEnds(n, threw))
          /\ WF_vars(SaveCacheEnds(n))

SpecWatchLive == InitWatch /\ [][NextWatch]_vars /\ WatchFairness

-----------------------------------------------------------------------------
(* Claims about the debounce of change events (SpecWatchLive) *)

WatchFiles == {File1, File2}

\* the passes under way that hold the path and have not yet called
\* translateFile for it and the language
CallsToCome(filePath, lang) ==
    Cardinality({n \in 1..Len(call.passes) :
        /\ call.passes[n].pc = "translateFile"
        /\ \E k \in 1..Len(call.passes[n].changes) :
              /\ call.passes[n].changes[k] = filePath
              /\ \/ k > call.passes[n].file
                 \/ k = call.passes[n].file /\ lang > call.passes[n].lang})

\* each time a path was taken from pendingChanges, translateFile was called
\* for it once for every target language, or the pass that took it will still
\* do so; and the timer is armed only while a path is pending
EveryTakenPathTranslated ==
    (call.fn = "watch" /\ call.running) =>
        /\ \A f \in WatchFiles, l \in 1..Len(WatchLangs) :
              call.calls[<<f, l>>] + CallsToCome(f, l) = call.taken[f]
        /\ call.debounceTimer = "armed" => call.pendingChanges # <<>>

\* a change event for a .json path puts the path among the pending ones and
\* arms the timer anew; an event for another path changes nothing of the
\* watcher
EventAddsAndRestarts ==
    (call.fn = "watch" /\ call'.events = call.events + 1) =>
        IF endsWithJson(call'.lastEvent)
        THEN /\ call'.lastEvent \in Range(call'.pendingChanges)
             /\ Range(call.pendingChanges) \subseteq Range(call'.pendingChanges)
             /\ call'.debounceTimer = "armed"
        ELSE /\ call'.pendingChanges = call.pendingChanges
             /\ call'.debounceTimer = call.debounceTimer
             /\ call'.passes = call.passes
             /\ call'.taken = call.taken
             /\ call'.calls = call.calls

\* nothing is pending, no pass is under way, and every path that had a change
\* event was given to translateFile for every language as often as it was taken
WatchSettled ==
    /\ call.pendingChanges = <<>>
    /\ call.passes = <<>>
    /\ \A f \in WatchFiles, l \in 1..Len(WatchLangs) : call.calls[<<f, l>>] = call.taken[f]

\* C40: every change event for a .json path adds the path to the pending set
\* and restarts the timer, events for other paths change nothing, and unless
\* the watcher is stopped every pending path leaves the pending set and is
\* given to translateFile for every target language once events cease
C40_DebounceLiveness ==
    /\ [][EventAddsAndRestarts]_vars
    /\ []EveryTakenPathTranslated
    /\ \A f \in WatchFiles :
          (call.running /\ f \in Range(call.pendingChanges))
             ~> (~call.running \/ f \notin Range(call.pendingChanges))
    /\ <>[](~call.running \/ WatchSettled)

\* after change events for both files and one for another path the watcher
\* has settled: each file was given to translateFile for both languages
C40_Witness ==
    /\ call.fn = "watch" /\ call.running
    /\ call.events = MaxEvents
    /\ WatchSettled
    /\ \A f \in WatchFiles, l \in 1..Len(WatchLangs) : call.calls[<<f, l>>] = 1

=============================================================================
